---- MODULE Spec2Model ----
(***************************************************************************)
(* GitHub-Manager: the issue_comment pipeline of the webhook service.      *)
(*                                                                         *)
(* One issue of one repository is modelled together with the upstream      *)
(* system of record (its comment history and its assignees).  Every        *)
(* inbound webhook request is a pipeline that runs on one of the request   *)
(* threads of the server; a pipeline advances by one outbound call at a    *)
(* time, so that pipelines and commenting users interleave between calls.  *)
(***************************************************************************)
EXTENDS Integers, Sequences, FiniteSets, TLC

\* ------------------------------------------------------------------ bounds
MaxComments == 3    \* comments written by users on the issue
MaxHistory  == 4    \* a request is accepted only while the history is shorter
ThreadedComments == 2   \* MaxComments when two requests run at a time
ThreadedHistory  == 3   \* MaxHistory when two requests run at a time
MaxFaults   == 1    \* outbound calls that fail in one behaviour
MaxCount    == 2    \* largest comment count of a ranking input
MaxStamp    == 2    \* largest timestamp of a ranking input

Humans  == {"a", "b"}
Self    == "manager"          \* the account the token authenticates

VARIABLES
    comments,      \* upstream: the issue's comment history, oldest first
    assignees,     \* upstream: the issue's assignees
    pending,       \* issue_comment deliveries not yet received: comment ids
    repoCache,     \* GitHubClient._repositories_cache holds the repository
    faults,        \* outbound calls that have failed so far
    pl,            \* the pipelines in progress, one per busy request thread
    workers,       \* request threads of the server
    rank,          \* ranking harness: input list, known counts, selection
    http,          \* routing harness: one request on its way through webhook()
    gen,           \* generation harness: one call of generate_response
    gov,           \* governor harness: one client call behind _check_rate_limit
    style,         \* style harness: a comment history, its profile, the context
    text,          \* detection harness: one comment text and the verdict on it
    cache          \* cache harness: _repositories_cache entry by entry

vars == <<comments, assignees, pending, repoCache, faults, pl, workers, rank, http, gen,
          gov, style, text, cache>>

\* ----------------------------------------------------------------- helpers
Front(s) == SubSeq(s, 1, Len(s) - 1)
Last(s)  == s[Len(s)]

NoUser == "-"

\* an outbound call: what is called, for or to which user, how it ends, and
\* the user a comment names besides the one it is addressed to
Entry(c, u, o) == [call |-> c, to |-> u, out |-> o, about |-> NoUser]

Idle == [pc |-> "idle", trigger |-> 0, issue_assignees |-> {}, new_comment |-> 0,
         snap |-> 0, assignment_requests |-> <<>>, candidate_scores |-> <<>>,
         i |-> 0, selected_user |-> NoUser, log |-> <<>>, result |-> FALSE,
         status |-> "none", redelivery |-> FALSE]

\* Outcomes of an outbound call: "ok", or "fail" (the call raised; PyGithub
\* signals API errors as GithubException).  Failures are capped by MaxFaults.
Outcomes == IF faults < MaxFaults THEN {"ok", "fail"} ELSE {"ok"}

\* create_comment can fail with a GithubException ("fail", swallowed by
\* add_comment) or with any other exception ("raise", which add_comment
\* lets through).
CommentOutcomes == IF faults < MaxFaults THEN {"ok", "fail", "raise"} ELSE {"ok"}

\* a notify call of a disabled EmailService ("disabled") makes no outbound call
Charge(o) == IF o \in {"ok", "disabled"} THEN faults ELSE faults + 1

\* ------------------------------------------------- IssueManager (pure part)
RequestBodies == {"please assign me"}
OtherBodies   == {"looks good"}

\* is_assignment_request: the body matches one of ASSIGNMENT_KEYWORDS.
is_assignment_request(body) == body \in RequestBodies

\* handle_comment: comment.user.login.endswith('[bot]')
BotLogins == {"ci[bot]"}
IsBotLogin(login) == login \in BotLogins

\* a scan that looks at the newest comment only
AssignmentRequestsOfNewest(cs) ==
    IF cs = <<>> \/ ~is_assignment_request(Last(cs).body) THEN <<>>
    ELSE <<[login |-> Last(cs).login, created_at |-> Last(cs).created_at]>>

\* handle_assignment_requests, lines 188-191: one (login, comment) entry per
\* matching comment of the fetched list, in list order.
RECURSIVE AssignmentRequests(_)
AssignmentRequests(cs) ==
    IF cs = <<>> THEN <<>>
    ELSE LET c == Last(cs)
             rest == AssignmentRequests(Front(cs))
         IN  IF is_assignment_request(c.body)
             THEN Append(rest, [login |-> c.login, created_at |-> c.created_at])
             ELSE rest

\* get_user_comment_count: comments of the list written by login.
UserCommentCount(cs, login) ==
    Cardinality({k \in DOMAIN cs : cs[k].login = login})

\* analyze_assignment_candidates, lines 94-98: candidate_scores[username] = ...
\* A dict keeps the position of a key's first insertion and the value of its
\* last assignment.
ScoreUpdate(scores, login, count, time) ==
    LET e == [login |-> login, comment_count |-> count, request_time |-> time]
    IN  IF \E k \in DOMAIN scores : scores[k].login = login
        THEN [k \in DOMAIN scores |->
                 IF scores[k].login = login THEN e ELSE scores[k]]
        ELSE Append(scores, e)

\* a key that puts the latest request first among equal counts
SortKeyLatestFirst(x, y) ==
    \/ -x.comment_count < -y.comment_count
    \/ /\ -x.comment_count = -y.comment_count
       /\ x.request_time > y.request_time

\* line 103: key=lambda x: (-comment_count, request_time), tuples compared
\* lexicographically.
SortKeyLess(x, y) ==
    \/ -x.comment_count < -y.comment_count
    \/ /\ -x.comment_count = -y.comment_count
       /\ x.request_time < y.request_time

\* sorted() is stable: an element goes before the first element with a
\* strictly larger key, after the elements that compare equal.
InsertSorted(s, x) ==
    LET before == {k \in DOMAIN s : SortKeyLess(x, s[k])}
        pos == IF before = {} THEN Len(s) + 1
               ELSE CHOOSE k \in before : \A j \in before : k <= j
    IN  SubSeq(s, 1, pos - 1) \o <<x>> \o SubSeq(s, pos, Len(s))

RECURSIVE Sorted(_)
Sorted(s) == IF s = <<>> THEN <<>> ELSE InsertSorted(Sorted(Front(s)), Last(s))

\* lines 101-106: sorted_candidates[0][0]
SelectedUser(scores) == Sorted(scores)[1].login

\* an arbitrator that does not look at the assignees
NeverAssigned(a) == FALSE

\* line 180: if issue.assignees
AlreadyAssigned(a) == a # {}

\* an arbitrator that does not look at the result of assign_issue
AssignIgnored(o) == TRUE

\* lines 203-207: the arbitrator goes on only after a successful assign call.
AssignSucceeded(o) == o = "ok"

\* a decline loop that does not leave out the selected user
DeclineAll(reqs, sel, i) == {k \in DOMAIN reqs : k > i}

\* lines 214-215: the entries of assignment_requests after position i whose
\* username differs from the selected user.
DeclineAfter(reqs, sel, i) ==
    {k \in DOMAIN reqs : k > i /\ reqs[k].login # sel}

NextDecline(reqs, sel, i) ==
    LET ks == DeclineAfter(reqs, sel, i)
    IN  IF ks = {} THEN 0 ELSE CHOOSE k \in ks : \A j \in ks : k <= j

\* app.py lines 163-166
ResponseStatus(success) == IF success THEN "processed" ELSE "ignored"

\* ---------------------------------------------------------------- upstream
LastStamp == IF comments = <<>> THEN 0 ELSE Last(comments).created_at

UserComments == Cardinality({k \in DOMAIN comments : comments[k].login \in Humans})

\* create_comment on the issue by the manager's own account; the platform
\* delivers an issue_comment event for it like for any other comment.
OwnComment(body) == [login |-> Self, body |-> body, created_at |-> LastStamp]

\* A user writes a comment.
CommentCap == IF workers = 1 THEN MaxComments ELSE ThreadedComments
HistoryCap == IF workers = 1 THEN MaxHistory ELSE ThreadedHistory

PostComment(u, body) ==
    /\ UserComments < CommentCap
    /\ comments' = Append(comments, [login |-> u, body |-> body,
                                      created_at |-> LastStamp + 1])
    /\ pending' = pending \cup {Len(comments) + 1}
    /\ UNCHANGED <<assignees, repoCache, faults, pl, workers, rank, http, gen,
                 gov, style, text, cache>>

\* ---------------------------------------------------------------- pipeline
Put(p, r) == pl' = (pl \ {p}) \cup {r}

Logged(r, c, u, o) == [r EXCEPT !.log = Append(@, Entry(c, u, o))]

\* the handler returns res; webhook() turns it into the response status
Finish(r, res) ==
    [r EXCEPT !.pc = "done", !.result = res, !.status = ResponseStatus(res)]

\* webhook() -> handle_event -> handle_issue_comment for a signed
\* issue_comment delivery, action created, of comment e on the issue.
Webhook(e) ==
    /\ Cardinality(pl) < workers
    /\ e \in pending
    /\ Len(comments) < HistoryCap
    /\ pending' = pending \ {e}
    /\ pl' = pl \cup {[Idle EXCEPT !.trigger = e,
                           !.pc = IF repoCache THEN "get_issue" ELSE "get_repository"]}
    /\ UNCHANGED <<comments, assignees, repoCache, faults, workers, rank, http, gen,
                 gov, style, text, cache>>

\* The platform delivers the event of comment e, an assignment request, once
\* more after the issue was assigned (a redelivery, asked for by hand or made
\* after a lost response), and webhook() receives it like the first one.
Redelivery(e) ==
    /\ Cardinality(pl) < workers
    /\ e \in DOMAIN comments
    /\ e \notin pending /\ \A p \in pl : p.trigger # e
    /\ is_assignment_request(comments[e].body)
    /\ assignees # {}
    /\ Len(comments) < HistoryCap
    /\ pl' = pl \cup {[Idle EXCEPT !.trigger = e, !.redelivery = TRUE,
                           !.pc = IF repoCache THEN "get_issue" ELSE "get_repository"]}
    /\ UNCHANGED <<comments, assignees, pending, repoCache, faults, workers, rank, http, gen,
                 gov, style, text, cache>>

\* GitHubClient.get_repository: cache hit, or fetch and cache.
GetRepository(p) ==
    /\ p.pc = "get_repository"
    /\ \E o \in Outcomes :
         /\ faults' = Charge(o)
         /\ repoCache' = (repoCache \/ o = "ok")
         /\ LET r == Logged(p, "get_repo", NoUser, o)
            IN  Put(p, IF o = "ok" THEN [r EXCEPT !.pc = "get_issue"]
                       ELSE Finish(r, FALSE))
    /\ UNCHANGED <<comments, assignees, pending, workers, rank, http, gen,
                 gov, style, text, cache>>

\* an issue kept from an earlier request, as the repository is
CachedIssueAssignees(current) == {}

\* repo.get_issue(issue_number), github_client.py line 123: no issue is
\* cached, every request gets the assignees the platform holds at that time
IssueAssignees(current) == current

\* GitHubClient.get_issue: a fresh copy of the issue, assignees included.
GetIssue(p) ==
    /\ p.pc = "get_issue"
    /\ \E o \in Outcomes :
         /\ faults' = Charge(o)
         /\ LET r == Logged(p, "get_issue", NoUser, o)
            IN  Put(p, IF o = "ok"
                       THEN [r EXCEPT !.pc = "get_comments",
                                      !.issue_assignees = IssueAssignees(assignees)]
                       ELSE Finish(r, FALSE))
    /\ UNCHANGED <<comments, assignees, pending, repoCache, workers, rank, http, gen,
                 gov, style, text, cache>>

\* handle_comment, lines 269-277, after new_comment = comments[-1]
Dispatch(r, fetched) ==
    IF fetched = <<>> THEN Finish(r, FALSE)
    ELSE LET c == Last(fetched)
             r1 == [r EXCEPT !.new_comment = Len(fetched)]
         IN  IF IsBotLogin(c.login) THEN Finish(r1, FALSE)
             ELSE IF is_assignment_request(c.body)
             THEN LET r2 == Logged(r1, "handle_assignment_requests", NoUser, "ok")
                  IN  IF AlreadyAssigned(r2.issue_assignees)
                      THEN Finish(r2, FALSE)
                      ELSE [r2 EXCEPT !.pc = "arb_comments"]
             ELSE [r1 EXCEPT !.pc = "generate"]

\* handle_issue_comment, lines 133-137: fetch the comments and hand the last
\* one to IssueManager.handle_comment.
GetNewComment(p) ==
    /\ p.pc = "get_comments"
    /\ \E o \in Outcomes :
         /\ faults' = Charge(o)
         /\ LET fetched == IF o = "ok" THEN comments ELSE <<>>
            IN  Put(p, Dispatch(Logged(p, "get_comments", NoUser, o), fetched))
    /\ UNCHANGED <<comments, assignees, pending, repoCache, workers, rank, http, gen,
                 gov, style, text, cache>>

\* handle_assignment_requests, lines 185-200: fetch all comments, collect the
\* assignment requests, leave when there is none.
ArbGetComments(p) ==
    /\ p.pc = "arb_comments"
    /\ \E o \in Outcomes :
         /\ faults' = Charge(o)
         /\ LET fetched == IF o = "ok" THEN comments ELSE <<>>
                reqs == AssignmentRequests(fetched)
                r == Logged(p, "arb_comments", NoUser, o)
            IN  Put(p, IF reqs = <<>> THEN Finish(r, FALSE)
                       ELSE [r EXCEPT !.pc = "count", !.i = 1,
                                      !.snap = Len(fetched),
                                      !.assignment_requests = reqs])
    /\ UNCHANGED <<comments, assignees, pending, repoCache, workers, rank, http, gen,
                 gov, style, text, cache>>

\* analyze_assignment_candidates, one iteration of the loop of lines 90-98:
\* get_user_comment_count fetches the comments again (0 when the fetch
\* fails); after the last iteration the candidates are ranked.
CountComments(p) ==
    /\ p.pc = "count"
    /\ \E o \in Outcomes :
         /\ faults' = Charge(o)
         /\ LET r == p
                req == r.assignment_requests[r.i]
                cnt == IF o = "ok" THEN UserCommentCount(comments, req.login) ELSE 0
                scores == ScoreUpdate(r.candidate_scores, req.login, cnt, req.created_at)
                r1 == [Logged(r, "count", req.login, o) EXCEPT !.candidate_scores = scores]
            IN  Put(p, IF r.i < Len(r.assignment_requests)
                       THEN [r1 EXCEPT !.i = r.i + 1]
                       ELSE [r1 EXCEPT !.pc = "assign", !.i = 0,
                                       !.selected_user = SelectedUser(scores)])
    /\ UNCHANGED <<comments, assignees, pending, repoCache, workers, rank, http, gen,
                 gov, style, text, cache>>

\* lines 203-207: assign_issue(issue, selected_user)
AssignIssue(p) ==
    /\ p.pc = "assign"
    /\ \E o \in Outcomes :
         /\ faults' = Charge(o)
         /\ assignees' = IF o = "ok" THEN assignees \cup {p.selected_user}
                         ELSE assignees
         /\ LET r == Logged(p, "assign", p.selected_user, o)
            IN  Put(p, IF AssignSucceeded(o) THEN [r EXCEPT !.pc = "confirm"]
                       ELSE Finish(r, FALSE))
    /\ UNCHANGED <<comments, pending, repoCache, workers, rank, http, gen,
                 gov, style, text, cache>>

\* add_comment: the comment reaches the history when the call succeeds
AddComment(o, body) ==
    IF o = "ok"
    THEN /\ comments' = Append(comments, OwnComment(body))
         /\ pending' = pending \cup {Len(comments) + 1}
    ELSE UNCHANGED <<comments, pending>>

\* where the arbitrator goes after a comment call with outcome o: the result
\* of add_comment is not looked at, an exception leaves through line 230
AfterComment(r, o, k) ==
    IF o = "raise" THEN Finish(r, FALSE)
    ELSE IF k # 0 THEN [r EXCEPT !.pc = "decline", !.i = k]
    ELSE [r EXCEPT !.pc = "notify", !.i = 0]

\* lines 210-211: the confirmation for the selected user
PostConfirmation(p) ==
    /\ p.pc = "confirm"
    /\ \E o \in CommentOutcomes :
         /\ faults' = Charge(o)
         /\ AddComment(o, "confirmation")
         /\ LET r == Logged(p, "confirm", p.selected_user, o)
            IN  Put(p, AfterComment(r, o,
                    NextDecline(r.assignment_requests, r.selected_user, 0)))
    /\ UNCHANGED <<assignees, repoCache, workers, rank, http, gen,
                 gov, style, text, cache>>

\* generate_decline_message(username, assigned_to, issue), lines 155-161, and
\* the add_comment that posts it
Declined(r, username, assigned_to, o) ==
    [r EXCEPT !.log = Append(@, [Entry("decline", username, o)
                                    EXCEPT !.about = assigned_to])]

\* lines 214-217: one iteration of the decline loop that posts
PostDecline(p) ==
    /\ p.pc = "decline"
    /\ \E o \in CommentOutcomes :
         /\ faults' = Charge(o)
         /\ AddComment(o, "decline")
         /\ LET r == Declined(p, p.assignment_requests[p.i].login,
                              p.selected_user, o)
            IN  Put(p, AfterComment(r, o,
                    NextDecline(r.assignment_requests, r.selected_user, r.i)))
    /\ UNCHANGED <<assignees, repoCache, workers, rank, http, gen,
                 gov, style, text, cache>>

\* lines 220-228: notify_issue_assignment returns False when the service is
\* disabled or the send fails; the arbitrator reports True either way.
NotifyOwner(p) ==
    /\ p.pc = "notify"
    /\ \E o \in Outcomes :
         /\ faults' = Charge(o)
         /\ Put(p, Finish(Logged(p, "notify", p.selected_user, o), TRUE))
    /\ UNCHANGED <<comments, assignees, pending, repoCache, workers, rank, http, gen,
                 gov, style, text, cache>>

\* handle_comment, lines 280-289: generate_issue_response gives None when
\* the retries are used up.
GenerateReply(p) ==
    /\ p.pc = "generate"
    /\ \E o \in Outcomes :
         /\ faults' = Charge(o)
         /\ LET r == Logged(p, "generate", NoUser, o)
            IN  Put(p, IF o = "ok" THEN [r EXCEPT !.pc = "reply"]
                       ELSE Finish(r, FALSE))
    /\ UNCHANGED <<comments, assignees, pending, repoCache, workers, rank, http, gen,
                 gov, style, text, cache>>

\* lines 283-286: add_comment(issue, ai_response); return True
PostReply(p) ==
    /\ p.pc = "reply"
    /\ \E o \in CommentOutcomes :
         /\ faults' = Charge(o)
         /\ AddComment(o, "reply")
         /\ Put(p, Finish(Logged(p, "reply", NoUser, o), o # "raise"))
    /\ UNCHANGED <<assignees, repoCache, workers, rank, http, gen,
                 gov, style, text, cache>>

\* webhook() returns the response and the request thread is free again
Respond(p) ==
    /\ p.pc = "done"
    /\ pl' = pl \ {p}
    /\ UNCHANGED <<comments, assignees, pending, repoCache, faults, workers, rank, http, gen,
                 gov, style, text, cache>>

\* ------------------------------------------------------------ ranking only
RankUsers == {"a", "b", "c"}

RankIdle == [requests |-> <<>>, count |-> [u \in RankUsers |-> 0],
             selected |-> NoUser, first |-> NoUser, reordered |-> FALSE]

RECURSIVE CandidateScores(_, _)
CandidateScores(reqs, count) ==
    IF reqs = <<>> THEN <<>>
    ELSE LET q == Last(reqs)
         IN  ScoreUpdate(CandidateScores(Front(reqs), count),
                         q.login, count[q.login], q.created_at)

\* analyze_assignment_candidates with get_user_comment_count answering count
analyze_assignment_candidates(reqs, count) ==
    IF reqs = <<>> THEN NoUser ELSE SelectedUser(CandidateScores(reqs, count))

\* request lists with one entry per candidate, in any order
RankInputs ==
    {s \in UNION {[1..n -> [login : RankUsers, created_at : 1..MaxStamp]]
                     : n \in 1..Cardinality(RankUsers)} :
        \A j, k \in DOMAIN s : j # k => s[j].login # s[k].login}

RankApply ==
    /\ rank.requests # <<>>
    /\ rank.selected = NoUser
    /\ LET sel == analyze_assignment_candidates(rank.requests, rank.count)
       IN  rank' = [rank EXCEPT !.selected = sel,
                                !.first = IF @ = NoUser THEN sel ELSE @]
    /\ UNCHANGED <<comments, assignees, pending, repoCache, faults, pl, workers, http, gen,
                 gov, style, text, cache>>

\* the same requests handed over in another order
RankReorder(k) ==
    /\ rank.selected # NoUser
    /\ k \in 1..(Len(rank.requests) - 1)
    /\ rank' = [rank EXCEPT !.selected = NoUser, !.reordered = TRUE,
                   !.requests = [@ EXCEPT ![k] = rank.requests[k + 1],
                                          ![k + 1] = rank.requests[k]]]
    /\ UNCHANGED <<comments, assignees, pending, repoCache, faults, pl, workers, http, gen,
                 gov, style, text, cache>>

\* -------------------------------------------------------------- style only
MaxStyleComments == 2   \* longest comment history handed to the profiler

NoStyle == [pc |-> "none"]

formal_indicators   == {"please", "thank you", "would", "could", "kindly"}
casual_indicators   == {"hey", "yeah", "cool", "awesome", "lol", "btw"}
positive_indicators == {"thanks", "great", "awesome", "excellent", "good", "appreciate"}
question_indicators == {"?", "how", "what", "why", "when", "where"}
SentenceMarks       == {".", "!", "?"}
Emoji               == "emoji"     \* a character of the ranges of lines 44-49

\* a comment is its length and what it contains: indicator phrases (in any
\* letter case), sentence marks (at most one of each), an emoji
StyleWords ==
    { {}, {"please"}, {"please", "would"}, {"please", "would", "could"},
      {"hey", "yeah"}, {"hey", "yeah", "cool"}, {"thanks", "."},
      {"awesome", "!"}, {"?"}, {"how", "?"}, {Emoji} }

StyleLengths == {99, 100, 299, 300}

StyleComments == [length : StyleLengths, words : StyleWords]

RECURSIVE SumOver(_, _)
SumOver(f, n) == IF n = 0 THEN 0 ELSE f[n] + SumOver(f, n - 1)

\* sum(sum(1 for indicator in indicators if indicator in comment.lower()) ...)
Hits(indicators, user_comments) ==
    SumOver([k \in DOMAIN user_comments |->
                Cardinality(indicators \cap user_comments[k].words)],
            Len(user_comments))

\* lines 70-75
Formality(formal_count, casual_count) ==
    IF 2 * formal_count > 3 * casual_count THEN "formal"
    ELSE IF 2 * casual_count > 3 * formal_count THEN "casual"
    ELSE "neutral"

\* a tone for which half the comment count is enough
ToneFromHalf(positive_count, question_count, n) ==
    IF 2 * positive_count >= n THEN "positive"
    ELSE IF 2 * question_count >= n THEN "inquisitive"
    ELSE "neutral"

\* lines 90-95
Tone(positive_count, question_count, n) ==
    IF 2 * positive_count > n THEN "positive"
    ELSE IF 2 * question_count > n THEN "inquisitive"
    ELSE "neutral"

\* round(avg_sentences, 1) in tenths; no average of fewer than 20 comments
\* lies halfway between two tenths
AvgSentences(total_sentences, n) ==
    IF total_sentences > 0 THEN (20 * total_sentences + n) \div (2 * n) ELSE 10

\* lines 31-38
DefaultProfile ==
    [avg_length |-> 0, tone |-> "neutral", formality |-> "neutral",
     uses_emojis |-> FALSE, avg_sentences |-> 0]

\* lines 40-103, for a list that is not empty
Profile(user_comments) ==
    LET n == Len(user_comments)
        total_length == SumOver([k \in 1..n |-> user_comments[k].length], n)
    IN  [avg_length    |-> total_length \div n,
         tone          |-> Tone(Hits(positive_indicators, user_comments),
                                Hits(question_indicators, user_comments), n),
         formality     |-> Formality(Hits(formal_indicators, user_comments),
                                     Hits(casual_indicators, user_comments)),
         uses_emojis   |-> \E k \in 1..n : Emoji \in user_comments[k].words,
         avg_sentences |-> AvgSentences(Hits(SentenceMarks, user_comments), n)]

\* a profiler that has no fixed answer for the empty list
analyze_unguarded(user_comments) ==
    IF user_comments = <<>> THEN [DefaultProfile EXCEPT !.avg_sentences = 10]
    ELSE Profile(user_comments)

analyze_writing_style(user_comments) ==
    IF user_comments = <<>> THEN DefaultProfile ELSE Profile(user_comments)

\* a length bucket whose first limit is inclusive
LengthGuidanceUpTo(avg_length) ==
    IF avg_length <= 100 THEN "- Keep response very brief (1-2 sentences)"
    ELSE IF avg_length < 300 THEN "- Keep response concise (2-3 sentences)"
    ELSE "- Provide detailed response (3-5 sentences)"

\* lines 123-128
LengthGuidance(avg_length) ==
    IF avg_length < 100 THEN "- Keep response very brief (1-2 sentences)"
    ELSE IF avg_length < 300 THEN "- Keep response concise (2-3 sentences)"
    ELSE "- Provide detailed response (3-5 sentences)"

\* lines 131-136
FormalityGuidance(formality) ==
    IF formality = "formal" THEN "- Use formal, professional language"
    ELSE IF formality = "casual" THEN "- Use friendly, casual language"
    ELSE "- Use balanced, professional yet friendly language"

\* lines 139-142
ToneGuidance(tone) ==
    IF tone = "positive" THEN <<"- Match their positive, enthusiastic tone">>
    ELSE IF tone = "inquisitive"
    THEN <<"- Be thorough and educational in your response">>
    ELSE <<>>

\* lines 145-148
EmojiGuidance(uses_emojis) ==
    IF uses_emojis THEN "- Feel free to use appropriate emojis"
    ELSE "- Avoid using emojis"

\* a context: the base text and the personalization lines appended to it
Context(base_context, guidelines) == [base |-> base_context, guidelines |-> guidelines]

build_personalized_context(user_style, base_context) ==
    Context(base_context,
            <<"Personalization Guidelines:", LengthGuidance(user_style.avg_length),
              FormalityGuidance(user_style.formality)>>
            \o ToneGuidance(user_style.tone)
            \o <<EmojiGuidance(user_style.uses_emojis)>>)

StyleInputs ==
    UNION {[1..n -> StyleComments] : n \in 0..MaxStyleComments}

\* UserAnalyzer.analyze_writing_style(user_comments)
Analyze ==
    /\ style.pc = "history"
    /\ style' = [style EXCEPT !.pc = "profiled",
                              !.user_style = analyze_writing_style(style.user_comments)]
    /\ UNCHANGED <<comments, assignees, pending, repoCache, faults, pl, workers, rank,
                   http, gen, gov, text, cache>>

\* UserAnalyzer.build_personalized_context(user_style, base_context)
Build ==
    /\ style.pc = "profiled"
    /\ style' = [style EXCEPT !.pc = "built",
                              !.context = build_personalized_context(style.user_style, "base")]
    /\ UNCHANGED <<comments, assignees, pending, repoCache, faults, pl, workers, rank,
                   http, gen, gov, text, cache>>

\* ---------------------------------------------------------- detection only
MaxUnits == 4       \* longest enumerated comment text, in units

NoText == [pc |-> "none"]

\* A comment text is a sequence of units: words, runs of white space and
\* punctuation.  Two words next to each other are written without anything
\* between them: <<"re", "assign">> is the text "reassign".
Spaces == {" ", "\n"}
Puncts == {"?", "!"}

IsWord(u) == u \notin Spaces \cup Puncts

\* ASSIGNMENT_KEYWORDS, lines 22-31: the words of each pattern; the pattern
\* has \b at both ends and \s+ between two words
ASSIGNMENT_KEYWORDS ==
    { <<"assign", "me">>,
      <<"i", "want", "to", "work", "on", "this">>,
      <<"can", "i", "work", "on", "this">>,
      <<"i", "would", "like", "to", "work", "on", "this">>,
      <<"i'd", "like", "to", "take", "this">>,
      <<"please", "assign", "me">>,
      <<"i", "can", "work", "on", "this">>,
      <<"let", "me", "work", "on", "this">> }

\* the upper-case spelling of a word
Capital ==
    [w \in {"assign", "me", "i", "want", "to", "work", "on", "this", "can",
            "would", "like", "i'd", "take", "please", "let"} |->
        CASE w = "assign" -> "ASSIGN" [] w = "me" -> "ME" [] w = "i" -> "I"
          [] w = "want" -> "WANT" [] w = "to" -> "TO" [] w = "work" -> "WORK"
          [] w = "on" -> "ON" [] w = "this" -> "THIS" [] w = "can" -> "CAN"
          [] w = "would" -> "WOULD" [] w = "like" -> "LIKE" [] w = "i'd" -> "I'D"
          [] w = "take" -> "TAKE" [] w = "please" -> "PLEASE" [] w = "let" -> "LET"]

\* str.lower(), unit by unit
LowerUnit(u) ==
    IF \E w \in DOMAIN Capital : Capital[w] = u
    THEN CHOOSE w \in DOMAIN Capital : Capital[w] = u
    ELSE u

Lower(comment_text) == [k \in DOMAIN comment_text |-> LowerUnit(comment_text[k])]

\* \b in front of the word at position i
BoundaryBefore(t, i) == i = 1 \/ ~IsWord(t[i - 1])

\* a pattern without the closing \b
AnyEnd(t, j) == TRUE

\* \b behind the word at position j
BoundaryAfter(t, j) == j = Len(t) \/ ~IsWord(t[j + 1])

\* the rest of pattern p matches behind its k-th word, found at position j:
\* \s+ and the next word, and \b behind the last one
RECURSIVE MatchRest(_, _, _, _)
MatchRest(p, k, t, j) ==
    IF k = Len(p) THEN BoundaryAfter(t, j)
    ELSE \E m \in (j + 2)..Len(t) :
            /\ \A q \in (j + 1)..(m - 1) : t[q] \in Spaces
            /\ t[m] = p[k + 1]
            /\ MatchRest(p, k + 1, t, m)

\* re.search(pattern, comment_lower)
Search(p, t) ==
    \E i \in DOMAIN t : t[i] = p[1] /\ BoundaryBefore(t, i) /\ MatchRest(p, 1, t, i)

\* IssueManager.is_assignment_request on a text given unit by unit
matches_assignment_request(comment_text) ==
    LET comment_lower == Lower(comment_text)
    IN  \E p \in ASSIGNMENT_KEYWORDS : Search(p, comment_lower)

RECURSIVE Spaced(_)
Spaced(p) == IF Len(p) <= 1 THEN p ELSE <<p[1], " ">> \o Spaced(Tail(p))

Shouted(t) == [k \in DOMAIN t |-> IF t[k] \in DOMAIN Capital THEN Capital[t[k]] ELSE t[k]]

EnumeratedUnits == {"assign", "ASSIGN", "me", "re", " ", "\n", "?"}

\* every text of up to MaxUnits units, every pattern in lower and in upper
\* case, alone and inside a sentence, and the texts of test_local.py
DetectInputs ==
    UNION {[1..n -> EnumeratedUnits] : n \in 0..MaxUnits}
    \cup {Spaced(p) : p \in ASSIGNMENT_KEYWORDS}
    \cup {Shouted(Spaced(p)) : p \in ASSIGNMENT_KEYWORDS}
    \cup {<<"hello", "!", " ">> \o Spaced(p) \o <<"?">> : p \in ASSIGNMENT_KEYWORDS}
    \cup {<<"re">> \o Spaced(p) : p \in ASSIGNMENT_KEYWORDS}
    \cup {Spaced(p) \o <<"re">> : p \in ASSIGNMENT_KEYWORDS}
    \cup { <<"I", " ", "want", " ", "to", " ", "work", " ", "on", " ", "this">>,
           <<"Can", " ", "I", " ", "work", " ", "on", " ", "this", "?">>,
           <<"This", " ", "is", " ", "a", " ", "great", " ", "issue">>,
           <<"Please", " ", "assign", " ", "me">>,
           <<"Just", " ", "a", " ", "regular", " ", "comment">> }

\* is_assignment_request(comment_text)
Detect ==
    /\ text.pc = "text"
    /\ text' = [text EXCEPT !.pc = "done",
                            !.verdict = matches_assignment_request(text.comment_text)]
    /\ UNCHANGED <<comments, assignees, pending, repoCache, faults, pl, workers, rank,
                   http, gen, gov, style, cache>>

\* -------------------------------------------------------------- cache only
MaxFetches == 3     \* fetches of repositories in one behaviour

NoCache == [pc |-> "none"]

\* repositories by full name; user.get_repos() lists the account's own, of
\* which get_all_public_repositories keeps those that are not private
Repos       == {"own/public", "own/private", "other/repo"}
PublicRepos == {"own/public"}

\* a cached Repository object is named by the number of the fetch that
\* brought it; Absent: no entry under the name, and the None of a result
Absent == 0

\* a fetch ends "ok", with a GithubException ("fail"), or with another
\* exception ("raise"), a connection error for instance
FetchOutcomes == {"ok", "fail", "raise"}

Served ==
    [pc |-> "serving", entries |-> [n \in Repos |-> Absent], fetches |-> 0,
     good |-> {}, op |-> "none", name |-> "", before |-> [n \in Repos |-> Absent],
     hit |-> FALSE, queried |-> FALSE, called |-> FALSE, out |-> "none",
     result |-> Absent, raised |-> FALSE]

\* a get_repository that stores whatever the fetch ended with
StoreAlways(entries, name, o, object) == [entries EXCEPT ![name] = object]

\* get_repository, lines 58-64: the entry is written after client.get_repo
\* returned, so only when it did
Store(entries, name, o, object) ==
    IF o = "ok" THEN [entries EXCEPT ![name] = object] ELSE entries

\* GitHubClient.get_repository(repo_full_name), lines 53-64, one call from
\* request to result
CacheGetRepository(name) ==
    /\ cache.pc = "serving"
    /\ LET c == [cache EXCEPT !.op = "get_repository", !.name = name,
                              !.before = cache.entries]
       IN  IF cache.entries[name] # Absent
           THEN cache' = [c EXCEPT !.hit = TRUE, !.queried = FALSE, !.called = FALSE,
                                   !.out = "ok", !.result = cache.entries[name],
                                   !.raised = FALSE]
           ELSE /\ cache.fetches < MaxFetches
                /\ \E o \in FetchOutcomes :
                     LET object == cache.fetches + 1
                     IN  cache' = [c EXCEPT
                            !.hit = FALSE, !.queried = TRUE, !.called = TRUE,
                            !.fetches = object, !.out = o,
                            !.good = IF o = "ok" THEN @ \cup {object} ELSE @,
                            !.entries = Store(@, name, o, object),
                            !.result = IF o = "ok" THEN object ELSE Absent,
                            !.raised = (o = "raise")]
    /\ UNCHANGED <<comments, assignees, pending, repoCache, faults, pl, workers, rank,
                   http, gen, gov, style, text>>

\* GitHubClient.get_all_public_repositories, lines 73-85, called by
\* initialize_services and by the endpoints / and /health: every listed
\* public repository is written to the cache, over the entry it may have
CacheListRepositories ==
    /\ cache.pc = "serving"
    /\ cache.fetches < MaxFetches
    /\ \E o \in FetchOutcomes :
         LET object == cache.fetches + 1
         IN  cache' = [cache EXCEPT
                !.op = "get_all_public_repositories", !.name = "",
                !.before = cache.entries,
                !.hit = FALSE, !.queried = TRUE, !.called = TRUE,
                !.fetches = object, !.out = o,
                !.good = IF o = "ok" THEN @ \cup {object} ELSE @,
                !.entries = IF o = "ok"
                            THEN [n \in Repos |-> IF n \in PublicRepos THEN object
                                                  ELSE cache.entries[n]]
                            ELSE @,
                !.result = IF o = "ok" THEN object ELSE Absent,
                !.raised = (o = "raise")]
    /\ UNCHANGED <<comments, assignees, pending, repoCache, faults, pl, workers, rank,
                   http, gen, gov, style, text>>

\* ----------------------------------------------------------- governor only
MaxReset == 3       \* latest reset time and latest start, in seconds
LowQuota == 10      \* line 93: core_limit.remaining < 10

NoQuery == [pc |-> "none"]

\* the client methods that reach the API of the system of record
ClientMethods ==
    {"get_repository", "get_issue", "get_pull_request", "get_issue_comments",
     "add_comment", "assign_issue"}

\* what datetime.now() is to core_limit.reset: PyGithub gives reset in UTC,
\* naive up to 2.0 and timezone-aware from 2.1 on; datetime.now() is naive
\* local time.  "utc": the host runs on UTC; "east", "west": it runs ahead
\* of or behind UTC; "aware": the subtraction of line 95 raises TypeError
Clocks == {"utc", "east", "west", "aware"}

\* datetime.now() at the true time now, in the time base of reset
LocalNow(clock, now) ==
    CASE clock = "east" -> now + 2
      [] clock = "west" -> now - 2
      [] OTHER -> now

\* a governor that lets a failed query escape
FailClosed(g) == [g EXCEPT !.pc = "done", !.result = "raise"]

\* _check_rate_limit, lines 107-108: the exception is logged and dropped
FailOpen(g) == [g EXCEPT !.pc = "perform"]

\* _check_rate_limit, lines 89-108, after get_rate_limit() answered
Throttle(g) ==
    IF g.remaining < LowQuota
    THEN IF g.clock = "aware" THEN FailOpen(g)
         ELSE LET wait_seconds == g.reset - LocalNow(g.clock, g.now)
              IN  IF wait_seconds > 0
                  THEN [g EXCEPT !.pc = "sleep", !.wait = wait_seconds + 1]
                  ELSE [g EXCEPT !.pc = "perform"]
    ELSE [g EXCEPT !.pc = "perform"]

GovInputs ==
    [pc : {"enter"}, method : ClientMethods, limit : {"ok", "fail"},
     remaining : {0, LowQuota - 1, LowQuota, LowQuota + 1},
     reset : 0..MaxReset, start : 0..MaxReset, now : 0..MaxReset,
     clock : Clocks, queried : {FALSE}, wait : {0}, slept : {0},
     performed : {FALSE}, started : {0}, result : {"none"}]

\* a client method is entered; get_repository answers from its cache
\* (lines 53-54) without any call
Enter ==
    /\ gov.pc = "enter"
    /\ gov' = IF gov.method = "get_repository" /\ repoCache
              THEN [gov EXCEPT !.pc = "done", !.result = "cached"]
              ELSE [gov EXCEPT !.pc = "query"]
    /\ UNCHANGED <<comments, assignees, pending, repoCache, faults, pl, workers, rank,
                   http, gen, style, text, cache>>

\* _check_rate_limit: client.get_rate_limit() and what follows from it
CheckRateLimit ==
    /\ gov.pc = "query"
    /\ LET g == [gov EXCEPT !.queried = TRUE]
       IN  gov' = IF g.limit = "fail" THEN FailOpen(g) ELSE Throttle(g)
    /\ UNCHANGED <<comments, assignees, pending, repoCache, faults, pl, workers, rank,
                   http, gen, style, text, cache>>

\* line 103: time.sleep(wait_seconds + 1)
RateSleep ==
    /\ gov.pc = "sleep"
    /\ gov' = [gov EXCEPT !.pc = "perform", !.slept = gov.wait,
                          !.now = gov.now + gov.wait]
    /\ UNCHANGED <<comments, assignees, pending, repoCache, faults, pl, workers, rank,
                   http, gen, style, text, cache>>

\* the call to the API itself, after _check_rate_limit returned
Perform ==
    /\ gov.pc = "perform"
    /\ \E o \in Outcomes :
         /\ faults' = Charge(o)
         /\ repoCache' = (repoCache \/ (gov.method = "get_repository" /\ o = "ok"))
         /\ gov' = [gov EXCEPT !.pc = "done", !.performed = TRUE,
                               !.started = gov.now, !.result = o]
    /\ UNCHANGED <<comments, assignees, pending, pl, workers, rank,
                   http, gen, style, text, cache>>

\* ------------------------------------------------------------ routing only
NoRequest == [pc |-> "none"]

Secrets == {"s1", "s2"}
Bodies  == {"body", "body'"}       \* the delivered bytes, and other bytes
Delivered == "body"

\* hmac.new(secret, body, sha256).hexdigest() behind a prefix: the digest is
\* taken as collision free, so a signature is the triple it was made from
Signature(prefix, secret, body) ==
    [kind |-> "ascii", prefix |-> prefix, key |-> secret, msg |-> body]

\* X-Hub-Signature-256 missing, empty, or holding a byte above 0x7f
NoSignature(kind) == [kind |-> kind, prefix |-> "", key |-> "", msg |-> ""]

SignatureHeaders ==
    {NoSignature(k) : k \in {"absent", "empty", "non-ascii"}}
    \cup {Signature(x, k, b) : x \in {"sha256=", "sha1="}, k \in Secrets, b \in Bodies}

\* verify_signature: False without a header; compare_digest raises TypeError
\* on a str with a non-ASCII character; otherwise the comparison's result
verify_signature(signature, secret, body) ==
    IF signature.kind \in {"absent", "empty"} THEN "false"
    ELSE IF signature.kind = "non-ascii" THEN "raise"
    ELSE IF signature = Signature("sha256=", secret, body) THEN "true"
    ELSE "false"

EventTypes == {"", "issue_comment", "pull_request", "issues", "push"}

\* a handler table that sends every other type to handle_issues
HandlerOrIssues(event_type) ==
    IF event_type \in {"issue_comment", "pull_request"}
    THEN event_type ELSE "issues"

\* handle_event, lines 247-253: handlers.get(event_type)
HandlerFor(event_type) ==
    IF event_type \in {"issue_comment", "pull_request", "issues"}
    THEN event_type ELSE "none"

NoObject == [action |-> "none", has_repo |-> FALSE, has_number |-> FALSE,
             marker |-> FALSE, reviewer |-> FALSE, bot |-> FALSE,
             comment |-> <<>>]

\* comment.body of an issue_comment event, in the units of a comment text
CommentBodies ==
    { <<>>,
      <<"looks", " ", "good">>,
      <<"is", " ", "it", " ", "ready", "?">>,
      <<" ", "CAN", " ", "you", " ", "rebase">>,
      <<"you", " ", "can", " ", "merge">>,
      <<"why", "!">> }

\* PRManager.is_question, line 82
question_words ==
    {"what", "why", "how", "when", "where", "who", "which", "can", "could",
     "would", "should"}

\* str.strip(): the text without the white space at its ends
RECURSIVE Strip(_)
Strip(t) ==
    IF t = <<>> THEN t
    ELSE IF Head(t) \in Spaces THEN Strip(Tail(t))
    ELSE IF t[Len(t)] \in Spaces THEN Strip(SubSeq(t, 1, Len(t) - 1))
    ELSE t

\* str.split()[0] of a stripped text that is not empty: the units up to the
\* first white space, which are one string
FirstWord(t) ==
    LET ends == {k \in DOMAIN t : t[k] \in Spaces}
        n == IF ends = {} THEN Len(t)
             ELSE (CHOOSE k \in ends : \A j \in ends : k <= j) - 1
    IN  SubSeq(t, 1, n)

\* a test that takes every comment for a question
always_question(comment_text) == TRUE

\* PRManager.is_question, lines 81-88; a first word of several units (a word
\* with a punctuation mark attached) is none of question_words
is_question(comment_text) ==
    IF \E k \in DOMAIN comment_text : comment_text[k] = "?" THEN TRUE
    ELSE LET first_word == IF Strip(comment_text) # <<>>
                           THEN Lower(FirstWord(Strip(comment_text))) ELSE <<>>
         IN  Len(first_word) = 1 /\ first_word[1] \in question_words

\* the JSON objects delivered with an event type; a field the handler of the
\* type never reads stays at its default
Payloads(event_type) ==
    CASE event_type = "issue_comment" ->
           {[NoObject EXCEPT !.action = a, !.has_repo = r, !.has_number = n,
                             !.marker = m, !.bot = b, !.comment = q] :
              a \in {"created", "edited", "none"}, r \in BOOLEAN, n \in BOOLEAN,
              m \in BOOLEAN, b \in BOOLEAN, q \in CommentBodies}
      [] event_type = "pull_request" ->
           {[NoObject EXCEPT !.action = a, !.has_repo = r, !.has_number = n,
                             !.reviewer = v] :
              a \in {"opened", "review_requested", "closed", "edited", "none"},
              r \in BOOLEAN, n \in BOOLEAN, v \in BOOLEAN}
      [] event_type = "issues" ->
           {[NoObject EXCEPT !.action = a, !.has_repo = r, !.has_number = n] :
              a \in {"opened", "created", "none"}, r \in BOOLEAN, n \in BOOLEAN}
      [] OTHER -> {[NoObject EXCEPT !.has_repo = TRUE]}

\* the body as request.json meets it: no parsable JSON under a JSON content
\* type, another content type, a falsy JSON value, a non-empty object, a
\* non-empty array (a truthy value without the methods of an object)
JsonKinds == {"unparsable", "not-json-type", "falsy", "object", "array"}

\* request.json: BadRequest on an unparsable body; for another content type
\* None up to Flask 2.0 and UnsupportedMediaType from Flask 2.1 on
JsonReads(kind) ==
    CASE kind = "unparsable"    -> {"raise"}
      [] kind = "not-json-type" -> {"raise", "falsy"}
      [] kind = "falsy"         -> {"falsy"}
      [] kind = "object"        -> {"value"}
      [] kind = "array"         -> {"value"}

\* email is EmailService.enabled, fixed when the service is constructed; sent
\* counts the calls of Emails.send
Request(sig, secret, event_type, kind, payload, email) ==
    [pc |-> "received", header |-> sig, secret |-> secret, body |-> Delivered,
     event |-> event_type, json |-> kind, payload |-> payload,
     email |-> email, sent |-> 0,
     verified |-> "none", routed |-> FALSE, handler |-> "none", fn |-> "none",
     fetched |-> FALSE, merged |-> FALSE, caught |-> FALSE, log |-> <<>>,
     result |-> FALSE,
     context |-> Context("", <<>>), code |-> 0, status |-> "none"]

RouteInputs ==
    {Request(sig, k, e, j, p, m) :
        sig \in SignatureHeaders, k \in Secrets, m \in BOOLEAN,
        <<e, j, p>> \in UNION {
            {<<t, "object", q>> : q \in Payloads(t)}
            \cup {<<t, j, NoObject>> : j \in JsonKinds \ {"object"}} :
            t \in EventTypes}}

\* jsonify(...), code
Reply(r, code, status) == [r EXCEPT !.pc = "done", !.code = code, !.status = status]

\* webhook(), lines 161-166: the handler's result as the response
Handled(r, res) == Reply([r EXCEPT !.result = res], 200, ResponseStatus(res))

\* a handler without its except clause: the exception leaves handle_event
Escapes(r) == [r EXCEPT !.caught = TRUE, !.pc = "notify_error"]

\* the except clause that closes every handler of WebhookHandler and every
\* handler of the two managers: the exception is logged, the result is False
Caught(r) == Handled([r EXCEPT !.caught = TRUE], FALSE)

\* payload.get('action'), the first statement inside the try of each
\* handler, raises AttributeError on a payload that is no object
NoMapping(r) == r.json = "array"

\* a handler that lets every action through
ProceedsAlways(action) == TRUE

\* handle_issue_comment, line 86
Proceeds(action) == action = "created"

\* a router that takes every comment for an issue comment
never_pull_request(payload) == FALSE

\* handle_issue_comment, line 114: 'pull_request' in issue_data
is_pull_request(payload) == payload.marker

\* lines 104-130 and 172-179, once the repository is there
AfterRepository(r) ==
    IF ~r.payload.has_number THEN Handled(r, FALSE)
    ELSE IF r.handler = "issue_comment" /\ ~is_pull_request(r.payload)
    THEN [r EXCEPT !.pc = "get_issue"]
    ELSE [r EXCEPT !.pc = "get_pull_request"]

\* lines 90-99 and 158-167: the repository's name, then the repository,
\* which GitHubClient.get_repository may hold in its cache
WithRepository(r, cached) ==
    IF ~r.payload.has_repo THEN Handled(r, FALSE)
    ELSE IF cached THEN AfterRepository(r)
    ELSE [r EXCEPT !.pc = "get_repository"]

handle_issue_comment(r, cached) ==
    IF NoMapping(r) THEN Caught(r)
    ELSE IF Proceeds(r.payload.action) THEN WithRepository(r, cached)
    ELSE Handled(r, FALSE)

handle_pull_request(r, cached) ==
    IF NoMapping(r) THEN Caught(r) ELSE WithRepository(r, cached)

\* a handle_issues that treats the event as a comment event
handle_issues_as_comment(r, cached) == handle_issue_comment(r, cached)

handle_issues(r, cached) ==
    IF NoMapping(r) THEN Caught(r) ELSE Handled(r, r.payload.has_number)

handle_event(r, cached) ==
    LET h  == HandlerFor(r.event)
        r1 == [r EXCEPT !.routed = TRUE, !.handler = h]
    IN  CASE h = "issue_comment" -> handle_issue_comment(r1, cached)
          [] h = "pull_request"  -> handle_pull_request(r1, cached)
          [] h = "issues"        -> handle_issues(r1, cached)
          [] OTHER               -> Handled(r1, FALSE)

\* webhook(), lines 140-161 and 168: everything up to the first outbound call
webhook(r, json, cached) ==
    LET v  == verify_signature(r.header, r.secret, r.body)
        r1 == [r EXCEPT !.verified = v]
    IN  IF v = "raise" THEN [r1 EXCEPT !.pc = "notify_error"]
        ELSE IF v = "false" THEN Reply(r1, 401, "error")
        ELSE IF r.event = "" THEN Reply(r1, 400, "error")
        ELSE IF json = "raise" THEN [r1 EXCEPT !.pc = "notify_error"]
        ELSE IF json = "falsy" THEN Reply(r1, 400, "error")
        ELSE handle_event(r1, cached)

\* a handler choice that takes every closed pull request as merged
PRActionAnyClose(action, reviewer, merged) ==
    CASE action = "opened" -> "handle_pr_opened"
      [] action = "review_requested" /\ reviewer -> "handle_pr_review_requested"
      [] action = "closed" -> "handle_pr_merged"
      [] OTHER -> "none"

\* handle_pull_request, lines 186-199
PRAction(action, reviewer, merged) ==
    CASE action = "opened" -> "handle_pr_opened"
      [] action = "review_requested" /\ reviewer -> "handle_pr_review_requested"
      [] action = "closed" /\ merged -> "handle_pr_merged"
      [] OTHER -> "none"

\* webhook() up to the first outbound call or to the response
Receive ==
    /\ http.pc = "received"
    /\ \E json \in JsonReads(http.json) : http' = webhook(http, json, repoCache)
    /\ UNCHANGED <<comments, assignees, pending, repoCache, faults, pl, workers, rank, gen,
                 gov, style, text, cache>>

\* EmailService.send_notification, lines 51-72: a disabled service returns
\* False at once; an enabled one calls Emails.send and returns True, or
\* False when the call raised
NotifyOutcomes(enabled) == IF enabled THEN Outcomes ELSE {"disabled"}

\* the notify call with outcome o, in the log and in the count of sends
Notified(r, c, o) ==
    [Logged(r, c, NoUser, o) EXCEPT !.sent = IF o = "disabled" THEN @ ELSE @ + 1]

\* a caller that gives up when the notification was not sent
AfterNotifyIfSent(r, o) ==
    IF o # "ok" THEN Handled(r, FALSE)
    ELSE IF r.fn \in {"handle_pr_opened", "handle_pr_merged"}
    THEN [r EXCEPT !.pc = "add_comment"]
    ELSE Handled(r, TRUE)

\* the callers of notify_issue_assignment and notify_pr_activity drop the
\* result: handle_pr_opened and handle_pr_merged go on to their comment
\* (pr_manager.py lines 156-171, 220-235), the others return True
\* (issue_manager.py lines 220-228, pr_manager.py lines 121-130, 192-200)
AfterNotify(r, o) ==
    IF r.fn \in {"handle_pr_opened", "handle_pr_merged"}
    THEN [r EXCEPT !.pc = "add_comment"]
    ELSE Handled(r, TRUE)

\* a boundary that reports a lost notification with another code
ErrorReplyIfSent(r, o) ==
    IF o = "ok" THEN Reply(r, 500, "error") ELSE Reply(r, 502, "error")

\* webhook(), line 178: the generic answer, whatever notify_error returned
ErrorReply(r, o) == Reply(r, 500, "error")

\* webhook(), lines 168-178: the error notification, then the 500
NotifyError ==
    /\ http.pc = "notify_error"
    /\ \E o \in NotifyOutcomes(http.email) :
         /\ faults' = Charge(o)
         /\ http' = ErrorReply(Notified(http, "notify_error", o), o)
    /\ UNCHANGED <<comments, assignees, pending, repoCache, pl, workers, rank, gen,
                 gov, style, text, cache>>

\* GitHubClient.get_repository on a cache miss
RouteGetRepository ==
    /\ http.pc = "get_repository"
    /\ \E o \in Outcomes :
         /\ faults' = Charge(o)
         /\ repoCache' = (repoCache \/ o = "ok")
         /\ LET r == Logged(http, "get_repo", NoUser, o)
            IN  http' = IF o = "ok" THEN AfterRepository(r) ELSE Handled(r, FALSE)
    /\ UNCHANGED <<comments, assignees, pending, pl, workers, rank, gen,
                 gov, style, text, cache>>

\* PRManager.handle_comment, lines 99-104, entered with the pull request
PRHandleComment(r) ==
    LET r1 == [r EXCEPT !.fn = "handle_comment"]
    IN  IF r.payload.bot THEN Handled(r1, FALSE) ELSE [r1 EXCEPT !.pc = "generate"]

\* handle_pull_request, lines 185-199, entered with the pull request; a
\* review request without a reviewer falls out of the function (None)
PRDispatch(r) ==
    LET fn == PRAction(r.payload.action, r.payload.reviewer, r.merged)
    IN  IF fn = "none" THEN Handled(r, FALSE)
        ELSE [r EXCEPT !.fn = fn, !.pc = "notify"]

\* GitHubClient.get_pull_request, for a comment on a pull request (line 118)
\* and for a pull_request event (line 179)
RouteGetPullRequest ==
    /\ http.pc = "get_pull_request"
    /\ \E o \in Outcomes, m \in BOOLEAN :
         /\ m => (http.handler = "pull_request" /\ http.payload.action = "closed"
                  /\ o = "ok")
         /\ faults' = Charge(o)
         /\ LET r == [Logged(http, "get_pull_request", NoUser, o)
                        EXCEPT !.fetched = (o = "ok"), !.merged = m]
            IN  http' = IF o # "ok" THEN Handled(r, FALSE)
                        ELSE IF r.handler = "issue_comment" THEN PRHandleComment(r)
                        ELSE PRDispatch(r)
    /\ UNCHANGED <<comments, assignees, pending, repoCache, pl, workers, rank, gen,
                 gov, style, text, cache>>

\* GitHubClient.get_issue, line 130
RouteGetIssue ==
    /\ http.pc = "get_issue"
    /\ \E o \in Outcomes :
         /\ faults' = Charge(o)
         /\ LET r == Logged(http, "get_issue", NoUser, o)
            IN  http' = IF o = "ok" THEN [r EXCEPT !.pc = "get_comments"]
                        ELSE Handled(r, FALSE)
    /\ UNCHANGED <<comments, assignees, pending, repoCache, pl, workers, rank, gen,
                 gov, style, text, cache>>

\* GitHubClient.get_issue_comments, lines 133-135: an empty list on failure
RouteGetIssueComments ==
    /\ http.pc = "get_comments"
    /\ \E o \in Outcomes :
         /\ faults' = Charge(o)
         /\ LET r == Logged(http, "get_comments", NoUser, o)
            IN  http' = IF o = "ok"
                        THEN [r EXCEPT !.pc = "issue_comment", !.fn = "issue_manager"]
                        ELSE Handled(r, FALSE)
    /\ UNCHANGED <<comments, assignees, pending, repoCache, pl, workers, rank, gen,
                 gov, style, text, cache>>

\* generate_issue_response and generate_pr_response, lines 349-355 and
\* 375-381: the context handed to generate_response
ResponseContext(base_context, user_comments) ==
    IF user_comments # <<>>
    THEN build_personalized_context(analyze_writing_style(user_comments), base_context)
    ELSE Context(base_context, <<>>)

\* the user_comments argument of the two handle_comment functions: they
\* pass none, so that the parameter keeps its default None
NoUserComments == <<>>

\* a caller that posts a reply whether or not a text was generated
AfterGenerateAnyway(r, o, next) == [r EXCEPT !.pc = next]

\* issue_manager.py lines 283-289 and pr_manager.py lines 110-136: without a
\* generated text the handler returns False
AfterGenerate(r, o, next) ==
    IF o = "ok" THEN [r EXCEPT !.pc = next] ELSE Handled(r, FALSE)

\* IssueManager.handle_comment, lines 269-277, with the newest comment of
\* the issue: a bot's comment is skipped, an assignment request goes to the
\* arbitrator (whose calls GetNewComment to PostDecline give in detail: it
\* returns False, or reaches the owner notification of line 220), any other
\* comment gets a generated reply
IssuePath ==
    /\ http.pc = "issue_comment"
    /\ \E kind \in {"bot", "request", "other"}, res \in BOOLEAN :
         /\ res => kind = "request"
         /\ LET r == Logged(http, "issue_manager.handle_comment", NoUser, "ok")
                a == Logged(r, "handle_assignment_requests", NoUser, "ok")
            IN  http' = CASE kind = "bot" -> Handled(r, FALSE)
                          [] kind = "request" ->
                               IF res THEN [a EXCEPT !.pc = "issue_notify"]
                               ELSE Handled(a, FALSE)
                          [] OTHER -> [r EXCEPT !.pc = "issue_generate"]
    /\ UNCHANGED <<comments, assignees, pending, repoCache, faults, pl, workers, rank, gen,
                 gov, style, text, cache>>

\* handle_assignment_requests, lines 219-228: notify_issue_assignment, then
\* True
IssueNotify ==
    /\ http.pc = "issue_notify"
    /\ \E o \in NotifyOutcomes(http.email) :
         /\ faults' = Charge(o)
         /\ http' = AfterNotify(Notified(http, "notify_issue_assignment", o), o)
    /\ UNCHANGED <<comments, assignees, pending, repoCache, pl, workers, rank, gen,
                 gov, style, text, cache>>

\* IssueManager.handle_comment, lines 279-281: generate_issue_response
IssueGenerate ==
    /\ http.pc = "issue_generate"
    /\ \E o \in Outcomes :
         /\ faults' = Charge(o)
         /\ LET r == [Logged(http, "generate_issue_response", NoUser, o)
                        EXCEPT !.context = ResponseContext("issue", NoUserComments)]
            IN  http' = AfterGenerate(r, o, "issue_reply")
    /\ UNCHANGED <<comments, assignees, pending, repoCache, pl, workers, rank, gen,
                 gov, style, text, cache>>

\* IssueManager.handle_comment, lines 283-286: add_comment, whose result is
\* not looked at; an exception that is no GithubException leaves through
\* line 291
IssueReply ==
    /\ http.pc = "issue_reply"
    /\ \E o \in CommentOutcomes :
         /\ faults' = Charge(o)
         /\ LET r == Logged(http, "issue_reply", NoUser, o)
            IN  http' = IF o = "raise" THEN Caught(r) ELSE Handled(r, TRUE)
    /\ UNCHANGED <<comments, assignees, pending, repoCache, pl, workers, rank, gen,
                 gov, style, text, cache>>

\* PRManager.handle_comment, lines 106-109: generate_pr_response
RouteGenerate ==
    /\ http.pc = "generate"
    /\ \E o \in Outcomes :
         /\ faults' = Charge(o)
         /\ LET r == [Logged(http, "generate", NoUser, o)
                        EXCEPT !.context = ResponseContext("pull request", NoUserComments)]
            IN  http' = AfterGenerate(r, o, "add_comment")
    /\ UNCHANGED <<comments, assignees, pending, repoCache, pl, workers, rank, gen,
                 gov, style, text, cache>>

\* notify_pr_activity: from handle_pr_opened, handle_pr_review_requested and
\* handle_pr_merged first of all, from handle_comment after the reply to a
\* question
RouteNotify ==
    /\ http.pc = "notify"
    /\ \E o \in NotifyOutcomes(http.email) :
         /\ faults' = Charge(o)
         /\ http' = AfterNotify(Notified(http, "notify", o), o)
    /\ UNCHANGED <<comments, assignees, pending, repoCache, pl, workers, rank, gen,
                 gov, style, text, cache>>

\* GitHubClient.add_comment on the pull request: the reply of handle_comment
\* (lines 111-131), the welcome of handle_pr_opened, the congratulation of
\* handle_pr_merged; an exception that is no GithubException is caught by
\* the manager
RouteAddComment ==
    /\ http.pc = "add_comment"
    /\ \E o \in CommentOutcomes :
         /\ faults' = Charge(o)
         /\ LET r == Logged(http, "add_comment", NoUser, o)
            IN  http' = IF o = "raise" THEN Caught(r)
                        ELSE IF r.fn = "handle_comment" /\ o = "ok"
                                /\ is_question(r.payload.comment)
                        THEN [r EXCEPT !.pc = "notify"]
                        ELSE Handled(r, o = "ok")
    /\ UNCHANGED <<comments, assignees, pending, repoCache, pl, workers, rank, gen,
                 gov, style, text, cache>>

\* --------------------------------------------------------- generation only
MaxRetries == 3     \* largest max_retries a generation call is made with

NoCall == [max_retries |-> 0, backend |-> <<>>, attempt |-> 0, pc |-> "none",
           calls |-> 0, sleeps |-> <<>>, response |-> "None"]

\* what the backend does on each attempt: a text, an empty text, an exception
BackendAnswers == {"text", "empty", "raise"}

GenInputs ==
    UNION {[1..n -> BackendAnswers] : n \in 0..MaxRetries}

RECURSIVE Pow2(_)
Pow2(n) == IF n = 0 THEN 1 ELSE 2 * Pow2(n - 1)

\* line 325: wait_time = 2 ** attempt
WaitTime(attempt) == Pow2(attempt)

\* a loop that sleeps after the last attempt too
SleepsAlways(attempt, max_retries) == attempt < max_retries

\* line 324: if attempt < max_retries - 1
SleepsAfter(attempt, max_retries) == attempt < max_retries - 1

\* lines 312-317: a non-empty response is returned, an empty one or an
\* exception goes on to the retry
Accepted(answer) == answer = "text"

\* generate_response, one iteration of the loop of lines 312-326 up to the
\* sleep; range(max_retries) is empty when max_retries is 0
GenAttempt ==
    /\ gen.pc = "attempt"
    /\ IF gen.attempt >= gen.max_retries
       THEN gen' = [gen EXCEPT !.pc = "done", !.response = "None"]
       ELSE LET answer == gen.backend[gen.attempt + 1]
                g == [gen EXCEPT !.calls = @ + 1]
            IN  gen' = IF Accepted(answer)
                       THEN [g EXCEPT !.pc = "done", !.response = "text"]
                       ELSE IF SleepsAfter(g.attempt, g.max_retries)
                       THEN [g EXCEPT !.pc = "sleep"]
                       ELSE [g EXCEPT !.attempt = @ + 1]
    /\ UNCHANGED <<comments, assignees, pending, repoCache, faults, pl, workers, rank, http,
                 gov, style, text, cache>>

\* lines 325-327: time.sleep(wait_time), then the next attempt
GenSleep ==
    /\ gen.pc = "sleep"
    /\ gen' = [gen EXCEPT !.pc = "attempt", !.attempt = @ + 1,
                          !.sleeps = Append(@, WaitTime(gen.attempt))]
    /\ UNCHANGED <<comments, assignees, pending, repoCache, faults, pl, workers, rank, http,
                 gov, style, text, cache>>

\* ---------------------------------------------------------- specifications
\* after initialize_services: get_all_public_repositories has cached the
\* repository when it is a public one of the account and the listing worked
Fresh ==
    /\ comments = <<>>
    /\ assignees = {}
    /\ pending = {}
    /\ repoCache \in BOOLEAN
    /\ faults = 0
    /\ pl = {}

\* one request at a time
Init ==
    /\ cache = NoCache
    /\ Fresh /\ workers = 1 /\ rank = RankIdle /\ http = NoRequest /\ gen = NoCall
    /\ gov = NoQuery /\ style = NoStyle /\ text = NoText

\* a threaded server: two requests at a time
InitThreaded ==
    /\ cache = NoCache
    /\ Fresh /\ workers = 2 /\ rank = RankIdle /\ http = NoRequest /\ gen = NoCall
    /\ gov = NoQuery /\ style = NoStyle /\ text = NoText

Next ==
    \/ \E u \in Humans, b \in RequestBodies \cup OtherBodies : PostComment(u, b)
    \/ \E e \in pending : Webhook(e)
    \/ \E p \in pl : GetRepository(p)
    \/ \E p \in pl : GetIssue(p)
    \/ \E p \in pl : GetNewComment(p)
    \/ \E p \in pl : ArbGetComments(p)
    \/ \E p \in pl : CountComments(p)
    \/ \E p \in pl : AssignIssue(p)
    \/ \E p \in pl : PostConfirmation(p)
    \/ \E p \in pl : PostDecline(p)
    \/ \E p \in pl : NotifyOwner(p)
    \/ \E p \in pl : GenerateReply(p)
    \/ \E p \in pl : PostReply(p)
    \/ \E p \in pl : Respond(p)

Spec == Init /\ [][Next]_vars

SpecThreaded == InitThreaded /\ [][Next]_vars

\* one request at a time, with redeliveries
NextRedelivery ==
    \/ Next
    \/ \E e \in DOMAIN comments : Redelivery(e)

SpecRedelivery == Init /\ [][NextRedelivery]_vars

InitRank ==
    /\ cache = NoCache
    /\ Fresh
    /\ workers = 1
    /\ \E s \in RankInputs, c \in [RankUsers -> 0..MaxCount] :
          rank = [RankIdle EXCEPT !.requests = s, !.count = c]
    /\ http = NoRequest
    /\ gen = NoCall
    /\ gov = NoQuery /\ style = NoStyle /\ text = NoText

NextRank ==
    \/ RankApply
    \/ \E k \in 1..Cardinality(RankUsers) : RankReorder(k)

SpecRank == InitRank /\ [][NextRank]_vars

InitRetry ==
    /\ cache = NoCache
    /\ Fresh
    /\ workers = 1
    /\ rank = RankIdle
    /\ http = NoRequest
    /\ \E b \in GenInputs, n \in 0..MaxRetries :
          gen = [NoCall EXCEPT !.max_retries = n, !.backend = b, !.pc = "attempt"]
             /\ Len(b) = n
    /\ gov = NoQuery /\ style = NoStyle /\ text = NoText

NextRetry == GenAttempt \/ GenSleep

SpecRetry == InitRetry /\ [][NextRetry]_vars

InitRoute ==
    /\ cache = NoCache
    /\ Fresh
    /\ workers = 1
    /\ rank = RankIdle
    /\ gen = NoCall
    /\ http \in RouteInputs
    /\ gov = NoQuery /\ style = NoStyle /\ text = NoText

NextRoute ==
    \/ Receive
    \/ NotifyError
    \/ RouteGetRepository
    \/ RouteGetPullRequest
    \/ RouteGetIssue
    \/ RouteGetIssueComments
    \/ IssuePath
    \/ IssueNotify
    \/ IssueGenerate
    \/ IssueReply
    \/ RouteGenerate
    \/ RouteNotify
    \/ RouteAddComment

SpecRoute == InitRoute /\ [][NextRoute]_vars

InitGovernor ==
    /\ cache = NoCache
    /\ Fresh
    /\ workers = 1
    /\ rank = RankIdle
    /\ http = NoRequest
    /\ gen = NoCall
    /\ style = NoStyle
    /\ text = NoText
    /\ gov \in GovInputs
    /\ gov.now = gov.start

NextGovernor == Enter \/ CheckRateLimit \/ RateSleep \/ Perform

SpecGovernor == InitGovernor /\ [][NextGovernor]_vars

\* GitHubClient.__init__, line 30: the cache is empty
InitCache ==
    /\ comments = <<>> /\ assignees = {} /\ pending = {} /\ repoCache = FALSE
    /\ faults = 0 /\ pl = {} /\ workers = 1
    /\ rank = RankIdle /\ http = NoRequest /\ gen = NoCall
    /\ gov = NoQuery /\ style = NoStyle /\ text = NoText
    /\ cache = Served

NextCache ==
    \/ \E name \in Repos : CacheGetRepository(name)
    \/ CacheListRepositories

SpecCache == InitCache /\ [][NextCache]_vars

InitDetect ==
    /\ cache = NoCache
    /\ Fresh
    /\ workers = 1
    /\ rank = RankIdle
    /\ http = NoRequest
    /\ gen = NoCall
    /\ gov = NoQuery
    /\ style = NoStyle
    /\ \E t \in DetectInputs : text = [pc |-> "text", comment_text |-> t, verdict |-> FALSE]

NextDetect == Detect

SpecDetect == InitDetect /\ [][NextDetect]_vars

InitStyle ==
    /\ cache = NoCache
    /\ Fresh
    /\ workers = 1
    /\ rank = RankIdle
    /\ http = NoRequest
    /\ gen = NoCall
    /\ gov = NoQuery
    /\ text = NoText
    /\ \E h \in StyleInputs :
          style = [pc |-> "history", user_comments |-> h,
                   user_style |-> DefaultProfile, context |-> Context("base", <<>>)]

NextStyle == Analyze \/ Build

SpecStyle == InitStyle /\ [][NextStyle]_vars

\* ------------------------------------------------------------------ claims
Calls(r, cs)  == {k \in DOMAIN r.log : r.log[k].call \in cs}
Posted(r, cs) == {k \in Calls(r, cs) : r.log[k].out = "ok"}
Failed(r, cs) == {k \in Calls(r, cs) : r.log[k].out # "ok"}

SideEffects == {"confirm", "decline", "notify"}

\* the position at which handle_assignment_requests was entered, 0 if never
Entered(r) ==
    IF Calls(r, {"handle_assignment_requests"}) = {} THEN 0
    ELSE CHOOSE k \in Calls(r, {"handle_assignment_requests"}) : TRUE

\* everything the arbitrator called out for
ArbitratorCalls(r) ==
    IF Entered(r) = 0 THEN {} ELSE {k \in DOMAIN r.log : k > Entered(r)}

\* C1: every confirmation comment, decline comment and owner notification of
\* an arbitration comes after a successful assign call for the selected
\* user; when the assign call fails there is no comment and no notification
\* and the arbitration reports "not handled".
C1_AssignBeforeEffects ==
    \A r \in pl :
        /\ \A k \in Calls(r, SideEffects) :
              \E j \in Posted(r, {"assign"}) :
                  j < k /\ r.log[j].to = r.selected_user
        /\ Failed(r, {"assign"}) # {} =>
              /\ Calls(r, SideEffects) = {}
              /\ r.pc = "done" /\ ~r.result

C1_Witness ==
    \E r \in pl : Failed(r, {"assign"}) # {} /\ r.pc = "done"

\* C2: the arbitrator's side effects come in the order assign, confirmation,
\* declines, notification, and a confirmation or decline comment that fails
\* to post is followed by no further decline and no notification.
C2_ShortCircuit ==
    \A r \in pl :
        /\ \A j, k \in DOMAIN r.log :
              /\ r.log[j].call = "assign" /\ r.log[k].call \in SideEffects => j < k
              /\ r.log[j].call = "confirm" /\ r.log[k].call \in {"decline", "notify"} => j < k
              /\ r.log[j].call = "decline" /\ r.log[k].call = "notify" => j < k
        /\ \A k \in Failed(r, {"confirm", "decline"}) :
              \A j \in Calls(r, {"decline", "notify"}) : j < k

\* C3: the issue never has two assignees.
C3_AtMostOneAssignee == Cardinality(assignees) <= 1

\* C5: the request time that ranks a candidate is the timestamp of that
\* author's earliest matching comment in the scanned history.
FirstRequestTime(n, login) ==
    LET ts == {comments[k].created_at : k \in
                  {j \in 1..n : comments[j].login = login
                                /\ is_assignment_request(comments[j].body)}}
    IN  CHOOSE t \in ts : \A x \in ts : t <= x

C5_FirstRequestTime ==
    \A r \in pl : \A k \in DOMAIN r.candidate_scores :
        r.candidate_scores[k].request_time =
            FirstRequestTime(r.snap, r.candidate_scores[k].login)

\* C6: an arbitration that assigned and posted all its comments has posted
\* exactly one confirmation, and exactly one decline for each other distinct
\* candidate.
Candidates(r) == {r.assignment_requests[k].login : k \in DOMAIN r.assignment_requests}

C6_OneCommentEach ==
    \A r \in pl :
        (r.pc = "done" /\ r.result /\ Posted(r, {"assign"}) # {}
            /\ Failed(r, {"confirm", "decline"}) = {}) =>
        /\ Cardinality(Posted(r, {"confirm"})) = 1
        /\ \A u \in Candidates(r) \ {r.selected_user} :
              Cardinality({k \in Posted(r, {"decline"}) : r.log[k].to = u}) = 1

\* C7: the comment the issue-comment path evaluates is the comment that
\* triggered the event, and the arbitrator is entered only when that comment
\* is an assignment request.
C7_TriggerEvaluated ==
    \A r \in pl :
        /\ r.new_comment # 0 => r.new_comment = r.trigger
        /\ Entered(r) # 0 => is_assignment_request(comments[r.trigger].body)

\* C8: the candidates of an arbitration are exactly the authors of the
\* matching comments of the whole history it fetched, which includes the
\* comment that was evaluated; the selected user is one of them.
Requesters(n) ==
    {comments[k].login : k \in {j \in 1..n : is_assignment_request(comments[j].body)}}

C8_CandidatesAreAllRequesters ==
    \A r \in pl :
        r.assignment_requests # <<>> =>
            /\ r.snap >= r.new_comment
            /\ Candidates(r) = Requesters(r.snap)
            /\ r.selected_user # NoUser =>
                  /\ r.selected_user \in Requesters(r.snap)
                  /\ {r.candidate_scores[k].login : k \in DOMAIN r.candidate_scores}
                        = Requesters(r.snap)

\* the selected user wrote neither the triggering nor the evaluated comment
C8_Witness ==
    \E r \in pl :
        /\ r.selected_user # NoUser
        /\ r.selected_user # comments[r.trigger].login
        /\ r.selected_user # comments[r.new_comment].login

\* C9: entered with an issue that has an assignee, the arbitrator makes no
\* outbound call and reports "not handled"; when it finds no candidate it
\* makes no assign call, posts nothing, notifies nobody and reports "not
\* handled".
C9_NoActionWhenAssignedOrNoCandidate ==
    \A r \in pl :
        Entered(r) # 0 =>
            /\ r.issue_assignees # {} =>
                  ArbitratorCalls(r) = {} /\ r.pc = "done" /\ ~r.result
            /\ (Calls(r, {"arb_comments"}) # {} /\ r.assignment_requests = <<>>) =>
                  /\ Calls(r, {"assign"} \cup SideEffects) = {}
                  /\ r.pc = "done" /\ ~r.result

C9_Witness ==
    \E r \in pl : Entered(r) # 0 /\ r.issue_assignees # {} /\ r.pc = "done"

\* C10: a request whose triggering comment asks for assignment, written by
\* the only candidate on an unassigned issue, with no outbound call failing,
\* ends with one assign call, one confirmation, no decline, one owner
\* notification and the status "processed".
C10_EndToEnd ==
    \A r \in pl :
        (/\ r.pc = "done"
         /\ is_assignment_request(comments[r.trigger].body)
         /\ Requesters(Len(comments)) = {comments[r.trigger].login}
         /\ Posted(r, {"get_issue"}) # {} /\ r.issue_assignees = {}
         /\ \A k \in DOMAIN r.log : r.log[k].out = "ok") =>
        /\ Cardinality(Calls(r, {"assign"})) = 1
        /\ Cardinality(Calls(r, {"confirm"})) = 1
        /\ Calls(r, {"decline"}) = {}
        /\ Cardinality(Calls(r, {"notify"})) = 1
        /\ r.status = "processed"

\* C4: of candidates with known comment count and request time, the selected
\* one has the largest count and, among those, the smallest request time, and
\* it is the same whatever the order of the request list.
RankCandidates == {rank.requests[k].login : k \in DOMAIN rank.requests}

RankTime(u) == (CHOOSE k \in DOMAIN rank.requests : rank.requests[k].login = u)

IsBest(u) ==
    /\ u \in RankCandidates
    /\ \A v \in RankCandidates :
          \/ rank.count[u] > rank.count[v]
          \/ /\ rank.count[u] = rank.count[v]
             /\ rank.requests[RankTime(u)].created_at
                   <= rank.requests[RankTime(v)].created_at

C4_BestWhateverTheOrder ==
    rank.selected # NoUser => IsBest(rank.selected) /\ rank.selected = rank.first

\* C4 as amended: the same, for candidates of which no two have both the
\* same count and the same request time.
DistinctPairs ==
    \A j, k \in DOMAIN rank.requests :
        j # k => \/ rank.count[rank.requests[j].login] # rank.count[rank.requests[k].login]
                 \/ rank.requests[j].created_at # rank.requests[k].created_at

C4_BestWhateverTheOrderOfDistinctPairs ==
    (rank.selected # NoUser /\ DistinctPairs) =>
        IsBest(rank.selected) /\ rank.selected = rank.first

\* ranked again after a reordering, the count tied and the time deciding
C4_Witness ==
    /\ rank.selected # NoUser /\ rank.reordered /\ DistinctPairs
    /\ \E v \in RankCandidates \ {rank.selected} :
          rank.count[v] = rank.count[rank.selected]
    /\ rank.selected # rank.requests[1].login

\* ----------------------------------------------------------------- routing
Answered == http.pc = "done"

GoodSignature == http.header = Signature("sha256=", http.secret, http.body)

\* C11: a request whose signature header is absent or does not match is
\* answered 401 with no handler invoked and no outbound call made, whatever
\* its event type and payload are.
C11_BadSignatureIs401 ==
    (~GoodSignature /\ http.pc # "received") =>
        /\ http.handler = "none"
        /\ http.log = <<>>
        /\ Answered
        /\ http.code = 401

\* C12: verify_signature returns true exactly when the header is 'sha256='
\* followed by the digest of the delivered body under the configured secret,
\* returns false for every other header, and makes no call.
C12_TrueIffExactDigest ==
    http.pc # "received" =>
        http.verified = (IF GoodSignature THEN "true" ELSE "false")

RequiredFields ==
    CASE http.event = "issue_comment" -> http.payload.has_repo /\ http.payload.has_number
      [] http.event = "pull_request"  -> http.payload.has_repo /\ http.payload.has_number
      [] http.event = "issues"        -> http.payload.has_number
      [] OTHER -> TRUE

\* C13: an authenticated event whose payload lacks the repository name or
\* the issue or pull-request number is answered 400.
C13_MissingFieldIs400 ==
    (Answered /\ http.routed /\ ~RequiredFields) => http.code = 400

\* C14: with a valid signature, a missing event type or an empty or missing
\* payload gives 400; any other request gives 200, 'processed' when the
\* handler returned true and 'ignored' otherwise.
C14_ResponseCodes ==
    (Answered /\ GoodSignature) =>
        IF http.event = "" \/ http.json \notin {"object", "array"}
        THEN http.code = 400
        ELSE /\ http.code = 200
             /\ http.status = (IF http.result THEN "processed" ELSE "ignored")

\* C15: an event of a type other than issue_comment, pull_request and
\* issues that reaches the router gets the 200 'ignored' answer, with no
\* handler invoked and no outbound call.
C15_UnknownTypeIgnored ==
    (http.routed /\ http.event \notin {"issue_comment", "pull_request", "issues"}) =>
        /\ Answered /\ http.code = 200 /\ http.status = "ignored"
        /\ http.handler = "none"
        /\ http.log = <<>>

C15_Witness ==
    /\ http.routed /\ http.event = "push" /\ Answered
    /\ http.status = "ignored"

\* C16: an issue_comment event whose action is not 'created' is ignored
\* without any outbound call.
C16_OnlyCreatedProceeds ==
    (http.routed /\ http.event = "issue_comment" /\ http.payload.action # "created") =>
        /\ Answered /\ http.code = 200 /\ http.status = "ignored"
        /\ http.log = <<>>

C16_Witness ==
    /\ http.routed /\ http.event = "issue_comment" /\ Answered
    /\ http.payload.action = "edited"
    /\ http.payload.has_repo /\ http.payload.has_number
    /\ http.status = "ignored"

IssuePathCalls == {"get_issue", "get_comments", "issue_manager.handle_comment",
                   "handle_assignment_requests", "notify_issue_assignment",
                   "generate_issue_response", "issue_reply"}
PRPathCalls    == {"get_pull_request", "generate", "add_comment", "notify"}

\* C17: a created comment whose issue carries the pull_request marker only
\* ever reaches the PR-comment path, one without the marker only ever the
\* issue-comment path.
C17_MarkerChoosesPath ==
    (http.routed /\ http.event = "issue_comment") =>
        IF http.payload.marker
        THEN Calls(http, IssuePathCalls) = {} /\ http.fn \in {"none", "handle_comment"}
        ELSE Calls(http, PRPathCalls) = {} /\ http.fn \in {"none", "issue_manager"}

\* a comment on a pull request answered by the PR manager, and a comment on
\* an issue handed to the issue manager, are both reached
C17_Witness ==
    /\ http.event = "issue_comment" /\ Answered
    /\ http.payload.marker
    /\ http.fn = "handle_comment"
    /\ Posted(http, {"add_comment"}) # {}

C17_WitnessIssue ==
    /\ http.event = "issue_comment" /\ Answered
    /\ ~http.payload.marker
    /\ Calls(http, {"issue_manager.handle_comment"}) # {}

Count(cs) == Cardinality(Calls(http, cs))

\* C18: a pull_request event whose pull request was fetched: 'opened' makes
\* one notification and one comment, 'review_requested' with a reviewer one
\* notification and no comment, 'closed' when merged one notification and
\* one comment; every other pull_request event makes neither and is ignored.
C18_PullRequestActions ==
    (Answered /\ http.routed /\ http.event = "pull_request") =>
        LET a == http.payload.action
            effect == \/ a = "opened"
                      \/ a = "review_requested" /\ http.payload.reviewer
                      \/ a = "closed" /\ http.merged
        IN  IF ~effect
            THEN /\ Count({"notify"}) = 0 /\ Count({"add_comment"}) = 0
                 /\ http.status = "ignored"
            ELSE http.fetched =>
                   /\ Count({"notify"}) = 1
                   /\ Count({"add_comment"}) = (IF a = "review_requested" THEN 0 ELSE 1)
                   /\ (Failed(http, {"add_comment"}) = {}) = (http.status = "processed")

C18_Witness ==
    /\ Answered /\ http.event = "pull_request"
    /\ http.payload.action = "closed" /\ http.merged
    /\ Posted(http, {"notify"}) # {} /\ Posted(http, {"add_comment"}) # {}
    /\ http.status = "processed"

\* C19: an issues event makes no outbound call, whatever its action.
C19_IssuesLoggedOnly ==
    (http.routed /\ http.event = "issues") =>
        /\ http.log = <<>>
        /\ Answered /\ http.code = 200
        /\ http.status = (IF http.payload.has_number THEN "processed" ELSE "ignored")

C19_Witness ==
    /\ http.routed /\ http.event = "issues" /\ Answered
    /\ http.payload.action = "created" /\ http.payload.has_repo
    /\ http.status = "processed"

\* C20: generate_response calls the backend at most max_retries times and
\* retries after an empty result and after an exception; a first success on
\* attempt k is returned after exactly the k-1 sleeps 1, 2, ..., 2^(k-2);
\* when every attempt fails the failure comes after exactly max_retries
\* calls and max_retries-1 sleeps, none after the last attempt.
Successes == {k \in DOMAIN gen.backend : gen.backend[k] = "text"}

FirstSuccess == CHOOSE k \in Successes : \A j \in Successes : k <= j

Backoff(n) == [j \in 1..n |-> Pow2(j - 1)]

C20_RetryWithBackoff ==
    /\ gen.calls <= gen.max_retries
    /\ gen.pc = "done" =>
          IF Successes # {}
          THEN /\ gen.response = "text"
               /\ gen.calls = FirstSuccess
               /\ gen.sleeps = Backoff(FirstSuccess - 1)
          ELSE /\ gen.response = "None"
               /\ gen.calls = gen.max_retries
               /\ gen.sleeps = Backoff(IF gen.max_retries = 0 THEN 0
                                       ELSE gen.max_retries - 1)

\* failed twice, by an exception and by an empty text, then succeeded
C20_Witness ==
    /\ gen.pc = "done" /\ gen.response = "text"
    /\ gen.calls = 3 /\ gen.sleeps = <<1, 2>>
    /\ {gen.backend[1], gen.backend[2]} = {"empty", "raise"}

\* ------------------------------------------------------- replies and errors
GenerateCalls == {"generate", "generate_issue_response"}
ReplyCalls    == {"add_comment", "issue_reply"}

\* C21: when the generation of a reply fails, on the issue path as on the
\* PR path, no comment is created, no notification is emitted and the
\* event is reported as not handled.
C21_NoReplyWithoutText ==
    Failed(http, GenerateCalls) # {} =>
        /\ Calls(http, ReplyCalls \cup {"notify"}) = {}
        /\ Answered /\ http.code = 200 /\ http.status = "ignored"

C21_Witness ==
    /\ Failed(http, {"generate_issue_response"}) # {}
    /\ Answered /\ http.status = "ignored"

C21_WitnessPR ==
    /\ Failed(http, {"generate"}) # {}
    /\ Answered /\ http.status = "ignored"

\* C24: the context handed to the generation backend for a reply to an
\* issue or PR comment is the base context followed by the personalization
\* guidance of the commenter's style profile.
C24_ContextIsPersonalized ==
    Calls(http, GenerateCalls) # {} =>
        /\ http.context.base \in {"issue", "pull request"}
        /\ http.context.guidelines # <<>>

\* C30: an exception that escapes the processing of a request (from the
\* signature check or from reading the body) ends in the generic 500, after
\* at most one attempted error notification, whether or not that succeeds.
Escaped ==
    \/ http.header.kind = "non-ascii"
    \/ GoodSignature /\ http.event # "" /\ http.json = "unparsable"

C30_GenericErrorAnswer ==
    /\ (Answered /\ Escaped) =>
          /\ http.code = 500 /\ http.status = "error"
          /\ Count({"notify_error"}) <= 1
          /\ Calls(http, {"notify_error"}) = DOMAIN http.log
    /\ (http.pc # "received" /\ ~Answered /\ Escaped) => http.pc = "notify_error"
    /\ (Answered /\ http.code = 500) => http.status = "error"

\* the notification failed and the answer is still the 500
C30_Witness ==
    /\ Answered /\ Escaped
    /\ Failed(http, {"notify_error"}) # {}
    /\ http.code = 500

\* ------------------------------------------------------------------- style
Profiled == style.pc \in {"profiled", "built"}

FormalHits == Hits(formal_indicators, style.user_comments)
CasualHits == Hits(casual_indicators, style.user_comments)

\* C25: the formality is 'formal' whenever the formal hits are 1.5 times the
\* casual hits or more, exactly 1.5 times included, 'casual' in the
\* symmetric case and 'neutral' otherwise.
C25_FormalityAtOneAndAHalf ==
    (Profiled /\ style.user_comments # <<>>) =>
        style.user_style.formality =
            (IF FormalHits > 0 /\ 2 * FormalHits >= 3 * CasualHits THEN "formal"
             ELSE IF CasualHits > 0 /\ 2 * CasualHits >= 3 * FormalHits THEN "casual"
             ELSE "neutral")

PositiveHits == Hits(positive_indicators, style.user_comments)
QuestionHits == Hits(question_indicators, style.user_comments)

\* C26: the tone is 'positive' exactly when the positive hits exceed half
\* the comment count, otherwise 'inquisitive' exactly when the question hits
\* do, otherwise 'neutral'.
C26_ToneAboveHalf ==
    (Profiled /\ style.user_comments # <<>>) =>
        LET n == Len(style.user_comments)
            t == style.user_style.tone
        IN  /\ (t = "positive") = (2 * PositiveHits > n)
            /\ (t = "inquisitive") = (2 * PositiveHits <= n /\ 2 * QuestionHits > n)
            /\ (t = "neutral") = (2 * PositiveHits <= n /\ 2 * QuestionHits <= n)

\* two comments, one positive hit and two question hits: exactly half is
\* not enough for 'positive', and the questions decide
C26_Witness ==
    /\ Profiled /\ Len(style.user_comments) = 2
    /\ PositiveHits = 1 /\ QuestionHits = 2
    /\ style.user_style.tone = "inquisitive"

LengthLines ==
    {"- Keep response very brief (1-2 sentences)",
     "- Keep response concise (2-3 sentences)",
     "- Provide detailed response (3-5 sentences)"}

\* C27: the context holds exactly one length instruction: 'very brief'
\* below 100, 'concise' from 100 to 299, 'detailed' from 300 on.
C27_LengthBuckets ==
    style.pc = "built" =>
        LET a == style.user_style.avg_length
            g == style.context.guidelines
            at == {k \in DOMAIN g : g[k] \in LengthLines}
        IN  /\ Cardinality(at) = 1
            /\ \A k \in at :
                 g[k] = (IF a <= 99 THEN "- Keep response very brief (1-2 sentences)"
                         ELSE IF a <= 299 THEN "- Keep response concise (2-3 sentences)"
                         ELSE "- Provide detailed response (3-5 sentences)")

C27_Witness ==
    /\ style.pc = "built"
    /\ style.user_style.avg_length = 100
    /\ \E k \in DOMAIN style.context.guidelines :
          style.context.guidelines[k] = "- Keep response concise (2-3 sentences)"

\* C28: the empty list gives the fixed default profile; any other list a
\* tone of neutral, positive or inquisitive and a formality of neutral,
\* formal or casual.
C28_DefaultAndRanges ==
    Profiled =>
        IF style.user_comments = <<>>
        THEN style.user_style = [avg_length |-> 0, tone |-> "neutral",
                                 formality |-> "neutral", uses_emojis |-> FALSE,
                                 avg_sentences |-> 0]
        ELSE /\ style.user_style.tone \in {"neutral", "positive", "inquisitive"}
             /\ style.user_style.formality \in {"neutral", "formal", "casual"}

C28_Witness ==
    /\ Profiled /\ style.user_comments = <<>>
    /\ style.user_style.avg_sentences = 0

\* ---------------------------------------------------------------- governor
\* C22: every call to the API is preceded by a rate-limit query, and when
\* the query reports fewer than 10 remaining calls the call starts only
\* once the reset time has passed, after a sleep of reset - now + 1 seconds.
C22_QuotaGate ==
    gov.performed =>
        /\ gov.queried
        /\ (gov.limit = "ok" /\ gov.remaining < 10) =>
              /\ gov.started >= gov.reset
              /\ gov.slept = (IF gov.start < gov.reset
                              THEN gov.reset - gov.start + 1 ELSE 0)
        /\ (gov.limit = "ok" /\ gov.remaining >= 10) => gov.slept = 0

\* C23: when the rate-limit query fails no error leaves the governor, no
\* sleep happens and the call that follows is made.
C23_FailsOpen ==
    (gov.limit = "fail" /\ gov.queried) =>
        /\ gov.pc \in {"perform", "done"}
        /\ gov.slept = 0
        /\ gov.result # "raise"
        /\ gov.pc = "done" => gov.performed

C23_Witness ==
    /\ gov.limit = "fail" /\ gov.queried
    /\ gov.remaining < 10 /\ gov.start < gov.reset
    /\ gov.performed /\ gov.result = "ok"

\* --------------------------------------------------------------- detection
\* the text with the letters of the known words in lower case
Folded == [k \in DOMAIN text.comment_text |->
             IF \E w \in DOMAIN Capital : Capital[w] = text.comment_text[k]
             THEN CHOOSE w \in DOMAIN Capital : Capital[w] = text.comment_text[k]
             ELSE text.comment_text[k]]

\* the phrasing as it is written: its words with one blank between them
Phrasing(p) == Spaced(p)

OccursAt(t, i, s) == i + Len(s) - 1 <= Len(t) /\ SubSeq(t, i, i + Len(s) - 1) = s

\* every run of white space as one blank
RECURSIVE Collapsed(_)
Collapsed(t) ==
    IF t = <<>> THEN <<>>
    ELSE IF Head(t) \in Spaces
    THEN IF Len(t) > 1 /\ t[2] \in Spaces THEN Collapsed(Tail(t))
         ELSE <<" ">> \o Collapsed(Tail(t))
    ELSE <<Head(t)>> \o Collapsed(Tail(t))

WholeWordsAt(t, i, s) ==
    /\ OccursAt(t, i, s)
    /\ (i > 1 => ~IsWord(t[i - 1]))
    /\ (i + Len(s) <= Len(t) => ~IsWord(t[i + Len(s)]))

NotifyCalls == {"notify", "notify_issue_assignment", "notify_error"}

\* C31: a notify call of a disabled service makes no outbound call, no
\* notify call raises, and what a handler does and returns after a notify
\* call (the comment of handle_pr_opened and handle_pr_merged, the result of
\* the arbitrator and of the PR handlers) is the same whether the
\* notification was sent, failed or was skipped.
C31_EmailIsOptional ==
    /\ ~http.email =>
          /\ http.sent = 0
          /\ \A k \in Calls(http, NotifyCalls) : http.log[k].out = "disabled"
    /\ Calls(http, {"notify", "notify_issue_assignment"}) # {} =>
          /\ http.pc \in {"add_comment", "done"}
          /\ http.pc = "add_comment" => http.fn \in {"handle_pr_opened", "handle_pr_merged"}
          /\ Answered =>
                /\ http.code = 200
                /\ Count({"add_comment"}) =
                      (IF http.fn \in {"handle_pr_review_requested", "issue_manager"}
                       THEN 0 ELSE 1)
                /\ http.result =
                      (IF http.fn \in {"handle_pr_opened", "handle_pr_merged"}
                       THEN Posted(http, {"add_comment"}) # {} ELSE TRUE)

\* a review request handled with the service disabled
C31_Witness ==
    /\ Answered /\ ~http.email /\ http.fn = "handle_pr_review_requested"
    /\ Calls(http, {"notify"}) # {} /\ http.sent = 0
    /\ http.status = "processed"

\* an arbitration whose notification was tried and failed
C31_WitnessFailed ==
    /\ Answered /\ http.email /\ http.sent = 1
    /\ Failed(http, {"notify_issue_assignment"}) # {}
    /\ http.status = "processed"
\* ---------------------------------------------------------- feedback loop
\* C32: the processing of the webhook for a comment that the manager's own
\* account created posts no comment.
C32_OwnCommentsUnanswered ==
    \A r \in pl :
        comments[r.trigger].login = Self =>
            Posted(r, {"confirm", "decline", "reply"}) = {}
\* the history as the arbitrator fetched it: the comments are only ever
\* appended to
Snapshot(r) == SubSeq(comments, 1, r.snap)

\* C33: the comment_count that ranks a candidate is the number of that
\* author's comments in the snapshot the candidates were collected from.
C33_CountsFromOneSnapshot ==
    \A r \in pl : \A k \in DOMAIN r.candidate_scores :
        r.candidate_scores[k].comment_count =
            UserCommentCount(Snapshot(r), r.candidate_scores[k].login)

\* the same, for the counts of fetches that did not fail: a comment added
\* after the scan is counted
C33_CountsOfGoodFetches ==
    \A r \in pl : \A k \in DOMAIN r.candidate_scores :
        Failed(r, {"count"}) = {} =>
            r.candidate_scores[k].comment_count =
                UserCommentCount(Snapshot(r), r.candidate_scores[k].login)
\* ------------------------------------------------------- one selected user
\* C34: in an arbitration with side effects the user of the assign call,
\* the user the confirmation is addressed to, the user every decline names
\* as assigned and the assignee of the owner notification are one user, who
\* wrote a matching comment of the scanned history and gets no decline.
C34_OneSelectedUser ==
    \A r \in pl : \A j \in Calls(r, {"assign"}) :
        /\ \A k \in Calls(r, {"assign", "confirm", "notify"}) :
              r.log[k].to = r.log[j].to
        /\ \A k \in Calls(r, {"decline"}) :
              r.log[k].about = r.log[j].to /\ r.log[k].to # r.log[j].to
        /\ r.log[j].to \in Requesters(r.snap)
        /\ Calls(r, SideEffects) # {} => Posted(r, {"assign"}) # {}

\* two candidates, the one who did not trigger the event is selected, the
\* other one declined, the owner notified
C34_Witness ==
    \E r \in pl :
        /\ r.pc = "done" /\ r.result
        /\ Posted(r, {"confirm"}) # {} /\ Posted(r, {"decline"}) # {}
        /\ Calls(r, {"notify"}) # {}
        /\ r.selected_user # comments[r.trigger].login
\* -------------------------------------------------------------- redelivery
\* C35: the processing of an assignment-request event that is delivered
\* again after the issue was assigned makes no assign call and posts no
\* confirmation and no decline.
C35_RedeliveryAssignsNothing ==
    \A r \in pl :
        r.redelivery => Calls(r, {"assign", "confirm", "decline"}) = {}

\* the only request of the history, whose first processing assigned the
\* issue and posted the confirmation, is processed again to the end
C35_Witness ==
    \E r \in pl :
        /\ r.redelivery /\ r.pc = "done" /\ r.trigger = 1
        /\ Requesters(Len(comments)) = {comments[1].login}
        /\ assignees = {comments[1].login}
        /\ Len(comments) >= 2 /\ comments[2] = OwnComment("confirmation")
        /\ Posted(r, {"get_issue"}) # {}

\* the second processing reaches the arbitrator, which leaves at line 180
C35_WitnessArbitrator ==
    \E r \in pl :
        /\ r.redelivery /\ r.pc = "done" /\ Entered(r) # 0
        /\ r.issue_assignees # {} /\ ~r.result
\* ------------------------------------------------------ delivered replies
\* C36: a request answered after a reply was generated, on the issue path
\* as on the PR path, is reported as processed only if the reply comment was
\* created.
C36_ProcessedOnlyIfPosted ==
    (Answered /\ Calls(http, GenerateCalls) # {} /\ http.status = "processed") =>
        Posted(http, ReplyCalls) # {}

\* the same on the PR path alone, where the result of add_comment decides
C36_OnThePRPath ==
    (Answered /\ Calls(http, {"generate"}) # {} /\ http.status = "processed") =>
        Posted(http, {"add_comment"}) # {}
\* the text begins, after white space, with word w in any letter case as a
\* word of its own
StartsWith(t, w) ==
    \E i \in DOMAIN t :
        /\ \A k \in 1..(i - 1) : t[k] \in Spaces
        /\ t[i] = w \/ (w \in DOMAIN Capital /\ t[i] = Capital[w])
        /\ i = Len(t) \/ t[i + 1] \in Spaces

Question(t) ==
    \/ \E k \in DOMAIN t : t[k] = "?"
    \/ \E w \in question_words : StartsWith(t, w)

\* C37: on the PR-comment path a notification is emitted only after the
\* generated reply was posted and only when the comment contains '?' or
\* starts with a question word; when the reply fails to post there is no
\* notification and the request is not handled.
C37_NotifyAfterReplyToQuestion ==
    http.fn = "handle_comment" =>
        /\ \A k \in Calls(http, {"notify"}) :
              /\ \E j \in Posted(http, {"add_comment"}) : j < k
              /\ Question(http.payload.comment)
        /\ Failed(http, {"add_comment"}) # {} =>
              /\ Calls(http, {"notify"}) = {}
              /\ Answered /\ http.code = 200 /\ http.status = "ignored"

\* a question without a question mark, the reply posted, the owner notified
C37_Witness ==
    /\ Answered /\ http.fn = "handle_comment"
    /\ http.payload.comment = <<" ", "CAN", " ", "you", " ", "rebase">>
    /\ Posted(http, {"add_comment"}) # {} /\ Calls(http, {"notify"}) # {}
    /\ http.status = "processed"

\* the reply to a question fails to post
C37_WitnessFailed ==
    /\ Answered /\ http.fn = "handle_comment"
    /\ Question(http.payload.comment)
    /\ Failed(http, {"add_comment"}) # {} /\ http.status = "ignored"
\* -------------------------------------------------- exceptions in handlers
\* C38: once handle_event is entered no exception reaches webhook(): an
\* exception inside a handler or a manager ends in the 200 'ignored'
\* answer, and the 500 comes only from failures before handle_event.
C38_HandlersNeverRaise ==
    /\ http.routed => http.pc # "notify_error" /\ http.code # 500
    /\ http.caught =>
          /\ http.routed /\ http.handler \in {"issue_comment", "pull_request", "issues"}
          /\ Answered /\ http.code = 200 /\ http.status = "ignored"
    /\ (Answered /\ http.code = 500) =>
          /\ ~http.routed /\ ~http.caught
          /\ \/ http.verified = "raise"
             \/ http.verified = "true" /\ http.json \in {"unparsable", "not-json-type"}

\* create_comment raises something that is no GithubException while a
\* merged pull request is congratulated
C38_Witness ==
    /\ Answered /\ http.caught /\ http.fn = "handle_pr_merged"
    /\ \E k \in Calls(http, {"add_comment"}) : http.log[k].out = "raise"
    /\ http.status = "ignored"

\* a payload that is an array makes the handler itself raise
C38_WitnessArray ==
    /\ Answered /\ http.caught /\ http.json = "array" /\ http.event = "issues"
    /\ http.status = "ignored"

\* ------------------------------------------------------------------- cache
Replaced == {n \in Repos : cache.before[n] # Absent /\ cache.entries[n] # cache.before[n]}

CacheBasics ==
    /\ \A n \in Repos : cache.entries[n] # Absent => cache.entries[n] \in cache.good
    /\ cache.op = "get_repository" =>
          IF cache.before[cache.name] # Absent
          THEN /\ cache.result = cache.before[cache.name] /\ ~cache.raised
               /\ ~cache.called /\ ~cache.queried
               /\ cache.entries = cache.before
          ELSE /\ cache.out # "ok" => cache.entries = cache.before
               /\ cache.out = "fail" => cache.result = Absent /\ ~cache.raised

\* C39: every entry of the cache is a successfully fetched repository; a
\* failed get_repository returns None and leaves the cache as it was; a
\* hit returns the cached object without a call and without a rate-limit
\* query; no entry is ever removed or replaced.
C39_CacheNeverRefreshed ==
    /\ CacheBasics
    /\ (cache.op = "get_repository" /\ cache.out # "ok") =>
          cache.result = Absent /\ ~cache.raised
    /\ Replaced = {}

\* C39 as amended: the same, with None for a fetch that failed with an API
\* error, and with entries that are never removed and are replaced only by
\* a successful get_all_public_repositories, for the repositories it lists.
C39_CacheRefreshedByListingOnly ==
    /\ CacheBasics
    /\ \A n \in Repos : cache.before[n] # Absent => cache.entries[n] # Absent
    /\ Replaced # {} =>
          /\ cache.op = "get_all_public_repositories" /\ cache.out = "ok"
          /\ Replaced \subseteq PublicRepos
    /\ cache.op = "get_repository" => Replaced = {}

\* a repository cached by get_repository, then listed: its entry is a new
\* object
C39_Witness ==
    /\ cache.op = "get_all_public_repositories" /\ cache.out = "ok"
    /\ cache.before["own/public"] # Absent
    /\ cache.entries["own/public"] # cache.before["own/public"]

\* a fetch failed, the next request for the same repository fetched again
\* and the third was served from the cache
C39_WitnessRetry ==
    /\ cache.op = "get_repository" /\ cache.name = "other/repo" /\ cache.hit
    /\ cache.fetches = 2 /\ cache.good = {2} /\ cache.result = 2
====
